---- MODULE Spec2Model ----
(***************************************************************************)
(* PayceMUSD: the purse ledger, the EIP-712 voucher redemption engine and  *)
(* the trove (borrowing position) wrapper of contracts/PayceMUSD.sol,      *)
(* together with the MockBorrowerOperations / MockTroveManager / MockERC20 *)
(* collaborators it is deployed against.                                   *)
(*                                                                         *)
(* Amounts are in whole MUSD (1 unit = 1e18 base units) and whole BTC.     *)
(* Every amount the model uses is a multiple of 1000 MUSD, so each integer *)
(* division of the source (the 0.1% fee) is exact in both scales.          *)
(* A call that reverts leaves the chain state as it was.  `last` holds the *)
(* call under observation: any one call of a run may be observed, with its *)
(* caller, arguments and outcome, and the run is followed up to that call  *)
(* (in SpecScenario, one call further when its caller follows it up).      *)
(***************************************************************************)
EXTENDS Integers, Sequences, FiniteSets, TLC

\* ------------------------------------------------------------- bounds
MaxBatch == 2      \* longest vouchers[] / signatures[] array submitted
MaxTime == 2       \* block.timestamp ranges over 1..MaxTime
MaxOpens == 1      \* openTrove calls that reach the collaborator
MaxChain == 3      \* observed calls followed in a row
MaxReopens == 2    \* openTrove calls that reach the collaborator, SDK requests racing
MaxPending == 2    \* SDK open requests between their checks and their sending
MaxFlight == 1     \* trove requests between their checks and their transaction

\* ---------------------------------------------------------- constants
gasCompensation == 200     \* PayceMUSD.closeTrove: 200e18
minNetDebt == 1800         \* MockBorrowerOperations.minNetDebt: 1800e18
borrowingFeeFloor == 10    \* MockBorrowerOperations.borrowingFeeFloor
ONE == 1000                \* the fixed-point unit of a ratio: 1e18, 100%
MaxUint == 2147483647      \* the largest unsigned word: 2^256 - 1, here 2^31 - 1
Price == 100000            \* MockPriceFeed.price: MUSD per BTC

Accounts == {"alice", "bob", "carol"}

\* An address no model account holds the key of (what ecrecover yields for
\* a well-formed signature over some other digest).
Stranger == "0xstranger"

\* Amounts passed to the purse entry points and to repayLoan.
Amounts == {0, 1000, 2000}

\* _musdAmount of openTroveAndBorrow: zero, below minNetDebt, above it.
BorrowAmounts == {0, 1000, 2000}

\* msg.value of the payable entry points.
Collaterals == {0, 1}

\* ------------------------------------------------------------ vouchers
Voucher(p, m, a, n, e) ==
    [payer |-> p, merchant |-> m, amount |-> a, nonce |-> n, expiry |-> e]

\* EIP712("PayceMUSD", "1") domain: name, version, chain, verifying contract.
DomainSeparator == <<"PayceMUSD", "1", "chain", "payce">>

VOUCHER_TYPEHASH ==
    "Voucher(address payer,address merchant,uint256 amount,uint256 nonce,uint256 expiry)"

\* keccak256 is modelled as injective: the digest is the encoded preimage.
hashVoucher(v) ==
    <<DomainSeparator, VOUCHER_TYPEHASH,
      v.payer, v.merchant, v.amount, v.nonce, v.expiry>>

\* A 65-byte ECDSA signature is the pair (key that signed, digest signed);
\* Malformed is a signature ECDSA.recover rejects (bad length, bad s or v).
Sign(signer, digest) == [signer |-> signer, digest |-> digest]

Malformed == [signer |-> "malformed", digest |-> <<>>]

\* ECDSA.recover(digest, signature): reverts on a malformed signature
\* ("revert"), returns the signing key's address when the signature is over
\* this digest, and an unrelated address otherwise.
recover_anyDigest(digest, sig) ==
    IF sig.signer = "malformed" THEN "revert" ELSE sig.signer

recover(digest, sig) ==
    IF sig.signer = "malformed" THEN "revert"
    ELSE IF sig.digest = digest THEN sig.signer
    ELSE Stranger

\* ------------------------------------------------- vouchers in circulation
\* The (voucher, signature) pairs that exist off-chain and may be submitted:
\* vouchers alice and bob signed, and attempts to cheat with them.
v1 == Voucher("alice", "bob", 1000, 1, 2)
v2 == Voucher("alice", "carol", 1000, 1, 2)
v3 == Voucher("alice", "bob", 1000, 2, 1)
v4 == Voucher("alice", "bob", 0, 3, 2)

Entry(v, sig) == [v |-> v, sig |-> sig]

Pool ==
    { Entry(v1, Sign("alice", hashVoucher(v1))),   \* signed by the payer
      Entry(v2, Sign("alice", hashVoucher(v2))),   \* same payer, other merchant
      Entry(v3, Sign("alice", hashVoucher(v3))),   \* expires at time 1
      Entry(v4, Sign("alice", hashVoucher(v4))),   \* amount 0
      Entry(v1, Sign("carol", hashVoucher(v1))),   \* signed by another key
      Entry(v1, Malformed) }                       \* signature that does not parse
    \cup
    \* alice's signature on v1 presented with one field of v1 altered
    { Entry(v, Sign("alice", hashVoucher(v1))) :
        v \in { [v1 EXCEPT !.payer = "carol"], [v1 EXCEPT !.merchant = "carol"],
                [v1 EXCEPT !.amount = 2000], [v1 EXCEPT !.nonce = 4],
                [v1 EXCEPT !.expiry = 3] } }

Digests == {hashVoucher(e.v) : e \in Pool}

\* ---------------------------------------------------------------- state
VARIABLES
    userBalance,      \* mapping(address => uint256) userBalance
    reservedBalance,  \* mapping(address => uint256) reservedBalance
    merchantBalance,  \* mapping(address => uint256) merchantBalance
    redeemed,         \* the digests d with redeemed[d] = true
    musd,             \* MockERC20 balances: the accounts' wallets and "payce"
    btc,              \* native balances of the accounts
    trove,            \* MockBorrowerOperations.troves[address(PayceMUSD)]
    now,              \* block.timestamp
    opens,            \* openTrove calls the collaborator accepted so far
    debited,          \* per payer: userBalance removed by redemptions so far
    credited,         \* per merchant: merchantBalance added by redemptions so far
    last,             \* the observed call: entry point, caller, arguments, outcome
    frame,            \* the entry point being executed statement by statement
    pending           \* SDK open requests that passed their checks, not yet sent

ledger == <<userBalance, reservedBalance, merchantBalance, redeemed>>
chain == <<userBalance, reservedBalance, merchantBalance, redeemed, musd, btc, trove>>
vars == <<userBalance, reservedBalance, merchantBalance, redeemed, musd, btc,
          trove, now, opens, debited, credited, last, frame, pending>>

Holders == Accounts \cup {"payce"}

NoCall == [op |-> "none", caller |-> "none", args |-> <<>>, ok |-> TRUE, err |-> ""]

\* No entry point is in the middle of its statements.
Idle == [op |-> "none"]

Init ==
    /\ userBalance = [a \in Accounts |-> 0]
    /\ reservedBalance = [a \in Accounts |-> 0]
    /\ merchantBalance = [a \in Accounts |-> 0]
    /\ redeemed = {}
    /\ musd = [h \in Holders |-> 0]
    /\ btc = [a \in Accounts |-> 1]
    /\ trove = [collateral |-> 0, debt |-> 0, status |-> 0]
    /\ now = 1
    /\ opens = 0
    /\ debited = [a \in Accounts |-> 0]
    /\ credited = [a \in Accounts |-> 0]
    /\ last = NoCall
    /\ frame = Idle
    /\ pending = {}

\* The state after construction and a mint of 1000 MUSD to alice's wallet:
\* MUSD owned from outside the contract.
InitFunded ==
    /\ userBalance = [a \in Accounts |-> 0]
    /\ reservedBalance = [a \in Accounts |-> 0]
    /\ merchantBalance = [a \in Accounts |-> 0]
    /\ redeemed = {}
    /\ musd = [h \in Holders |-> IF h = "alice" THEN 1000 ELSE 0]
    /\ btc = [a \in Accounts |-> 1]
    /\ trove = [collateral |-> 0, debt |-> 0, status |-> 0]
    /\ now = 1
    /\ opens = 0
    /\ debited = [a \in Accounts |-> 0]
    /\ credited = [a \in Accounts |-> 0]
    /\ last = NoCall
    /\ frame = Idle
    /\ pending = {}

\* A call: its entry point, msg.sender and arguments.
Call(op, c, args) == [op |-> op, caller |-> c, args |-> args]

\* A run is followed until a call has been observed.
Live == last = NoCall

\* The call returns (err = "") or reverts with reason err.  It is either
\* left unobserved or recorded as the observed call of the run.
Returns(call, err) ==
    /\ \/ last' = last
       \/ last' = [op |-> call.op, caller |-> call.caller, args |-> call.args,
                   ok |-> (err = ""), err |-> err, prev |-> last]
    /\ UNCHANGED frame

\* ------------------------------------------------------------ view helpers
availableBalance_ignoresReserved(user) == userBalance[user]

availableBalance(user) ==
    LET total == userBalance[user]
        reserved == reservedBalance[user]
    IN  IF total <= reserved THEN 0 ELSE total - reserved

\* ------------------------------------------------------------- the purse
depositErr(c, amount) ==
    IF ~(amount > 0) THEN "amount>0"
    ELSE IF musd[c] < amount THEN "ERC20: insufficient balance"
    ELSE ""

\* deposit that reserves what it credits.
deposit_reserves(c, amount) ==
    LET err == depositErr(c, amount)
    IN  /\ IF err = ""
           THEN /\ musd' = [musd EXCEPT ![c] = @ - amount, !["payce"] = @ + amount]
                /\ userBalance' = [userBalance EXCEPT ![c] = @ + amount]
                /\ reservedBalance' = [reservedBalance EXCEPT ![c] = @ + amount]
           ELSE UNCHANGED <<musd, userBalance, reservedBalance>>
        /\ Returns(Call("deposit", c, [amount |-> amount]), err)
        /\ UNCHANGED <<merchantBalance, redeemed, btc, trove,
                       now, opens, debited, credited>>

deposit(c, amount) ==
    LET err == depositErr(c, amount)
    IN  /\ IF err = ""
           THEN /\ musd' = [musd EXCEPT ![c] = @ - amount, !["payce"] = @ + amount]
                /\ userBalance' = [userBalance EXCEPT ![c] = @ + amount]
           ELSE UNCHANGED <<musd, userBalance>>
        /\ Returns(Call("deposit", c, [amount |-> amount]), err)
        /\ UNCHANGED <<reservedBalance, merchantBalance, redeemed, btc, trove,
                       now, opens, debited, credited>>

\* withdrawUser's checks with the amount compared to the whole purse.
withdrawUserErr_ignoresReserved(c, amount) ==
    IF ~(amount > 0) THEN "amount>0"
    ELSE IF ~(amount <= userBalance[c])
         THEN "insufficient available funds"
    ELSE IF musd["payce"] < amount THEN "ERC20: insufficient balance"
    ELSE ""

\* withdrawUser's checks with the amount required to stay below the available
\* balance.
withdrawUserErr_strict(c, amount) ==
    IF ~(amount > 0) THEN "amount>0"
    ELSE IF ~(amount < availableBalance(c))
         THEN "insufficient available funds"
    ELSE IF musd["payce"] < amount THEN "ERC20: insufficient balance"
    ELSE ""

withdrawUserErr(c, amount) ==
    IF ~(amount > 0) THEN "amount>0"
    ELSE IF ~(amount <= availableBalance(c))
         THEN "insufficient available funds"
    ELSE IF musd["payce"] < amount THEN "ERC20: insufficient balance"
    ELSE ""

withdrawUser(c, amount) ==
    LET err == withdrawUserErr(c, amount)
    IN  /\ IF err = ""
           THEN /\ userBalance' = [userBalance EXCEPT ![c] = @ - amount]
                /\ musd' = [musd EXCEPT !["payce"] = @ - amount, ![c] = @ + amount]
           ELSE UNCHANGED <<musd, userBalance>>
        /\ Returns(Call("withdrawUser", c, [amount |-> amount]), err)
        /\ UNCHANGED <<reservedBalance, merchantBalance, redeemed, btc, trove,
                       now, opens, debited, credited>>

reserveFundsErr(c, amount) ==
    IF ~(amount > 0) THEN "amount>0"
    ELSE IF ~(amount <= availableBalance(c))
         THEN "not enough available to reserve"
    ELSE ""

reserveFunds(c, amount) ==
    LET err == reserveFundsErr(c, amount)
    IN  /\ IF err = ""
           THEN reservedBalance' = [reservedBalance EXCEPT ![c] = @ + amount]
           ELSE UNCHANGED reservedBalance
        /\ Returns(Call("reserveFunds", c, [amount |-> amount]), err)
        /\ UNCHANGED <<userBalance, merchantBalance, redeemed, musd, btc, trove,
                       now, opens, debited, credited>>

\* releaseReserved's checks with the amount required to stay below the
\* reservation.
releaseReservedErr_strict(c, amount) ==
    IF ~(amount > 0) THEN "amount>0"
    ELSE IF ~(reservedBalance[c] > amount) THEN "not reserved that much"
    ELSE ""

releaseReservedErr(c, amount) ==
    IF ~(amount > 0) THEN "amount>0"
    ELSE IF ~(reservedBalance[c] >= amount) THEN "not reserved that much"
    ELSE ""

releaseReserved(c, amount) ==
    LET err == releaseReservedErr(c, amount)
    IN  /\ IF err = ""
           THEN reservedBalance' = [reservedBalance EXCEPT ![c] = @ - amount]
           ELSE UNCHANGED reservedBalance
        /\ Returns(Call("releaseReserved", c, [amount |-> amount]), err)
        /\ UNCHANGED <<userBalance, merchantBalance, redeemed, musd, btc, trove,
                       now, opens, debited, credited>>

\* withdrawMerchant's checks without the comparison to the earnings.
withdrawMerchantErr_unchecked(c, amount) ==
    IF ~(amount > 0) THEN "amount>0"
    ELSE IF musd["payce"] < amount THEN "ERC20: insufficient balance"
    ELSE ""

withdrawMerchantErr(c, amount) ==
    LET bal == merchantBalance[c]
    IN  IF ~(amount > 0) THEN "amount>0"
        ELSE IF ~(bal >= amount) THEN "insufficient merchant balance"
        ELSE IF musd["payce"] < amount THEN "ERC20: insufficient balance"
        ELSE ""

withdrawMerchant(c, amount) ==
    LET bal == merchantBalance[c]
        err == withdrawMerchantErr(c, amount)
    IN  /\ IF err = ""
           THEN /\ merchantBalance' = [merchantBalance EXCEPT ![c] = bal - amount]
                /\ musd' = [musd EXCEPT !["payce"] = @ - amount, ![c] = @ + amount]
           ELSE UNCHANGED <<musd, merchantBalance>>
        /\ Returns(Call("withdrawMerchant", c, [amount |-> amount]), err)
        /\ UNCHANGED <<userBalance, reservedBalance, redeemed, btc, trove,
                       now, opens, debited, credited>>

\* ------------------------------------------------------------ redemption
\* redeemVoucher's checks without the redeemed lookup.
redeemVoucherErr_noReplayCheck(c, v, sig) ==
    LET digest == hashVoucher(v)
        signer == recover(digest, sig)
    IN  IF ~(c = v.merchant) THEN "only merchant can call"
        ELSE IF ~(now <= v.expiry) THEN "voucher expired"
        ELSE IF signer = "revert" THEN "ECDSA: invalid signature"
        ELSE IF ~(signer = v.payer) THEN "invalid signature"
        ELSE IF ~(userBalance[v.payer] >= v.amount) THEN "payer insufficient balance"
        ELSE IF ~(reservedBalance[v.payer] >= v.amount) THEN "not enough reserved funds"
        ELSE ""

\* redeemVoucher's checks without the comparison of signer and payer.
redeemVoucherErr_noSignerCheck(c, v, sig) ==
    LET digest == hashVoucher(v)
        signer == recover(digest, sig)
    IN  IF ~(c = v.merchant) THEN "only merchant can call"
        ELSE IF ~(now <= v.expiry) THEN "voucher expired"
        ELSE IF digest \in redeemed THEN "voucher already redeemed"
        ELSE IF signer = "revert" THEN "ECDSA: invalid signature"
        ELSE IF ~(userBalance[v.payer] >= v.amount) THEN "payer insufficient balance"
        ELSE IF ~(reservedBalance[v.payer] >= v.amount) THEN "not enough reserved funds"
        ELSE ""

\* The require chain of redeemVoucher: "" when every check passes, else the
\* reason of the first check that fails.
\* redeemVoucher that wants more reserved than the voucher's amount.
redeemVoucherErr_reservedStrict(c, v, sig) ==
    LET digest == hashVoucher(v)
        signer == recover(digest, sig)
    IN  IF ~(c = v.merchant) THEN "only merchant can call"
        ELSE IF ~(now <= v.expiry) THEN "voucher expired"
        ELSE IF digest \in redeemed THEN "voucher already redeemed"
        ELSE IF signer = "revert" THEN "ECDSA: invalid signature"
        ELSE IF ~(signer = v.payer) THEN "invalid signature"
        ELSE IF ~(userBalance[v.payer] >= v.amount) THEN "payer insufficient balance"
        ELSE IF ~(reservedBalance[v.payer] > v.amount) THEN "not enough reserved funds"
        ELSE ""

redeemVoucherErr(c, v, sig) ==
    LET digest == hashVoucher(v)
        signer == recover(digest, sig)
    IN  IF ~(c = v.merchant) THEN "only merchant can call"
        ELSE IF ~(now <= v.expiry) THEN "voucher expired"
        ELSE IF digest \in redeemed THEN "voucher already redeemed"
        ELSE IF signer = "revert" THEN "ECDSA: invalid signature"
        ELSE IF ~(signer = v.payer) THEN "invalid signature"
        ELSE IF ~(userBalance[v.payer] >= v.amount) THEN "payer insufficient balance"
        ELSE IF ~(reservedBalance[v.payer] >= v.amount) THEN "not enough reserved funds"
        ELSE ""

\* redeemVoucher that leaves the payer's reservation as it was.
redeemVoucher_keepsReserved(c, v, sig) ==
    LET err == redeemVoucherErr(c, v, sig)
    IN  /\ IF err = ""
           THEN /\ redeemed' = redeemed \cup {hashVoucher(v)}
                /\ userBalance' = [userBalance EXCEPT ![v.payer] = @ - v.amount]
                /\ UNCHANGED reservedBalance
                /\ merchantBalance' = [merchantBalance EXCEPT ![v.merchant] = @ + v.amount]
           ELSE UNCHANGED <<redeemed, userBalance, reservedBalance, merchantBalance>>
        /\ debited' = [a \in Accounts |-> debited[a] + (userBalance[a] - userBalance'[a])]
        /\ credited' = [a \in Accounts |->
                           credited[a] + (merchantBalance'[a] - merchantBalance[a])]
        /\ Returns(Call("redeemVoucher", c, [voucher |-> v, signature |-> sig]), err)
        /\ UNCHANGED <<musd, btc, trove, now, opens>>

redeemVoucher(c, v, sig) ==
    LET err == redeemVoucherErr(c, v, sig)
    IN  /\ IF err = ""
           THEN /\ redeemed' = redeemed \cup {hashVoucher(v)}
                /\ userBalance' = [userBalance EXCEPT ![v.payer] = @ - v.amount]
                /\ reservedBalance' = [reservedBalance EXCEPT ![v.payer] = @ - v.amount]
                /\ merchantBalance' = [merchantBalance EXCEPT ![v.merchant] = @ + v.amount]
           ELSE UNCHANGED <<redeemed, userBalance, reservedBalance, merchantBalance>>
        /\ debited' = [a \in Accounts |-> debited[a] + (userBalance[a] - userBalance'[a])]
        /\ credited' = [a \in Accounts |->
                           credited[a] + (merchantBalance'[a] - merchantBalance[a])]
        /\ Returns(Call("redeemVoucher", c, [voucher |-> v, signature |-> sig]), err)
        /\ UNCHANGED <<musd, btc, trove, now, opens>>

\* -------------------------------------------------------------- the SDK
\* PayceMUSD.validateVoucher of the SDK: "" when it returns, else the message
\* of the error it throws.  The client's clock reads the chain's time.
validateVoucher(v) ==
    IF v.payer = "" \/ v.merchant = ""
    THEN "Payer and merchant addresses are required"
    ELSE IF v.amount <= 0 THEN "Amount must be greater than 0"
    ELSE IF v.nonce <= 0 THEN "Nonce must be greater than 0"
    ELSE IF v.expiry <= now THEN "Voucher has expired"
    ELSE ""

\* PayceMicropayments.redeemVoucher: validateVoucher, then the contract call
\* sent from the merchant's wallet c.
sdkRedeemVoucher(c, v, sig) ==
    LET invalid == validateVoucher(v)
        err == IF invalid # "" THEN invalid ELSE redeemVoucherErr(c, v, sig)
    IN  /\ IF err = ""
           THEN /\ redeemed' = redeemed \cup {hashVoucher(v)}
                /\ userBalance' = [userBalance EXCEPT ![v.payer] = @ - v.amount]
                /\ reservedBalance' = [reservedBalance EXCEPT ![v.payer] = @ - v.amount]
                /\ merchantBalance' = [merchantBalance EXCEPT ![v.merchant] = @ + v.amount]
           ELSE UNCHANGED <<redeemed, userBalance, reservedBalance, merchantBalance>>
        /\ debited' = [a \in Accounts |-> debited[a] + (userBalance[a] - userBalance'[a])]
        /\ credited' = [a \in Accounts |->
                           credited[a] + (merchantBalance'[a] - merchantBalance[a])]
        /\ Returns(Call("sdk.redeemVoucher", c, [voucher |-> v, signature |-> sig]), err)
        /\ UNCHANGED <<musd, btc, trove, now, opens>>

\* ------------------------------------------------- the SDK's transactions
\* What becomes of a transaction handed to the wallet: "thrown" when sending
\* it (or waiting for its receipt) throws, else the status of its receipt.
\* "none" stands for a call that never reaches executeWrite.
Outcomes == {"thrown", "success", "reverted"}

\* executeWrite that reports success for every receipt.
executeWrite_ignoresStatus(sent, message) ==
    IF sent = "thrown"
    THEN [hash |-> "0x", success |-> FALSE, error |-> message]
    ELSE [hash |-> "tx", success |-> TRUE, error |-> ""]

\* PayceCore.executeWrite: the TransactionResult it returns; an undefined
\* error is "".
executeWrite(sent, message) ==
    IF sent = "thrown"
    THEN [hash |-> "0x", success |-> FALSE, error |-> message]
    ELSE [hash |-> "tx", success |-> (sent = "success"),
          error |-> IF sent = "reverted" THEN "Transaction reverted" ELSE ""]

\* An SDK write: `invalid` is the message of the error its own checks throw
\* ("" when they pass), err the contract's revert reason ("" when the call
\* goes through) and effect what the contract call does.  A call that would
\* revert either fails when it is sent (gas estimation) or is mined and
\* reverted; any call may fail when it is sent.
sdkWrite(call, invalid, err, effect, sent) ==
    /\ IF invalid # "" THEN sent = "none"
       ELSE sent \in {"thrown"} \cup (IF err = "" THEN {"success"} ELSE {"reverted"})
    /\ IF sent = "success" THEN effect
       ELSE UNCHANGED <<userBalance, reservedBalance, merchantBalance, redeemed,
                        musd, debited, credited>>
    /\ last' = [op |-> call.op, caller |-> call.caller, args |-> call.args,
                ok |-> (invalid = ""), err |-> invalid, sent |-> sent,
                ret |-> IF invalid = "" THEN executeWrite(sent, IF err # "" THEN err
                                                                ELSE "request failed")
                        ELSE <<>>,
                prev |-> last]
    /\ UNCHANGED <<btc, trove, now, opens, frame>>

\* PayceMicropayments.deposit
sdkDeposit(c, amount, sent) ==
    sdkWrite(Call("sdk.deposit", c, [amount |-> amount]),
             IF amount <= 0 THEN "Amount must be greater than 0" ELSE "",
             depositErr(c, amount),
             /\ musd' = [musd EXCEPT ![c] = @ - amount, !["payce"] = @ + amount]
             /\ userBalance' = [userBalance EXCEPT ![c] = @ + amount]
             /\ UNCHANGED <<reservedBalance, merchantBalance, redeemed, debited, credited>>,
             sent)

\* PayceMicropayments.withdrawUser
sdkWithdrawUser(c, amount, sent) ==
    sdkWrite(Call("sdk.withdrawUser", c, [amount |-> amount]),
             IF amount <= 0 THEN "Amount must be greater than 0"
             ELSE IF availableBalance(c) < amount THEN "Insufficient balance"
             ELSE "",
             withdrawUserErr(c, amount),
             /\ userBalance' = [userBalance EXCEPT ![c] = @ - amount]
             /\ musd' = [musd EXCEPT !["payce"] = @ - amount, ![c] = @ + amount]
             /\ UNCHANGED <<reservedBalance, merchantBalance, redeemed, debited, credited>>,
             sent)

\* PayceMicropayments.redeemVoucher with the TransactionResult it returns.
sdkRedeemVoucherResult(c, v, sig, sent) ==
    sdkWrite(Call("sdk.redeemVoucher", c, [voucher |-> v, signature |-> sig]),
             validateVoucher(v),
             redeemVoucherErr(c, v, sig),
             /\ redeemed' = redeemed \cup {hashVoucher(v)}
             /\ userBalance' = [userBalance EXCEPT ![v.payer] = @ - v.amount]
             /\ reservedBalance' = [reservedBalance EXCEPT ![v.payer] = @ - v.amount]
             /\ merchantBalance' = [merchantBalance EXCEPT ![v.merchant] = @ + v.amount]
             /\ debited' = [debited EXCEPT ![v.payer] = @ + v.amount]
             /\ credited' = [credited EXCEPT ![v.merchant] = @ + v.amount]
             /\ UNCHANGED musd,
             sent)

\* The storage redeemBatch works on while its loop runs.
Storage ==
    [userBalance |-> userBalance, reservedBalance |-> reservedBalance,
     merchantBalance |-> merchantBalance, redeemed |-> redeemed, err |-> ""]

\* A commit that leaves out the credit when the payer is the merchant.
batchCommit_dropsSelfCredit(L, v) ==
    [L EXCEPT !.redeemed = @ \cup {hashVoucher(v)},
              !.userBalance[v.payer] = @ - v.amount,
              !.reservedBalance[v.payer] = @ - v.amount,
              !.merchantBalance[v.merchant] =
                  IF v.payer = v.merchant THEN @ ELSE @ + v.amount]

\* The "Commit" block of the loop body, applied to storage L.
batchCommit(L, v) ==
    [L EXCEPT !.redeemed = @ \cup {hashVoucher(v)},
              !.userBalance[v.payer] = @ - v.amount,
              !.reservedBalance[v.payer] = @ - v.amount,
              !.merchantBalance[v.merchant] = @ + v.amount]

\* The loop looking up the redeemed flag as it was when the call began.
RECURSIVE batchLoop_staleRedeemed(_, _, _, _, _)
batchLoop_staleRedeemed(c, vouchers, signatures, i, L) ==
    IF i > Len(vouchers) THEN L
    ELSE
      LET v == vouchers[i]
          sig == signatures[i]
          digest == hashVoucher(v)
          signer == recover(digest, sig)
      IN  IF ~(c = v.merchant) THEN [L EXCEPT !.err = "caller not merchant"]
          ELSE IF ~(now <= v.expiry) THEN [L EXCEPT !.err = "voucher expired"]
          ELSE IF digest \in redeemed
               THEN batchLoop_staleRedeemed(c, vouchers, signatures, i + 1, L)
          ELSE IF signer = "revert" THEN [L EXCEPT !.err = "ECDSA: invalid signature"]
          ELSE IF signer # v.payer
               THEN batchLoop_staleRedeemed(c, vouchers, signatures, i + 1, L)
          ELSE IF ~(L.userBalance[v.payer] >= v.amount)
               THEN [L EXCEPT !.err = "payer insufficient balance in batch"]
          ELSE IF ~(L.reservedBalance[v.payer] >= v.amount)
               THEN [L EXCEPT !.err = "not enough reserved funds in batch"]
          ELSE batchLoop_staleRedeemed(c, vouchers, signatures, i + 1, batchCommit(L, v))

\* The loop passing over an entry that names another merchant.
RECURSIVE batchLoop_skipsForeign(_, _, _, _, _)
batchLoop_skipsForeign(c, vouchers, signatures, i, L) ==
    IF i > Len(vouchers) THEN L
    ELSE
      LET v == vouchers[i]
          sig == signatures[i]
          digest == hashVoucher(v)
          signer == recover(digest, sig)
      IN  IF ~(c = v.merchant)
          THEN batchLoop_skipsForeign(c, vouchers, signatures, i + 1, L)
          ELSE IF ~(now <= v.expiry) THEN [L EXCEPT !.err = "voucher expired"]
          ELSE IF digest \in L.redeemed
               THEN batchLoop_skipsForeign(c, vouchers, signatures, i + 1, L)
          ELSE IF signer = "revert" THEN [L EXCEPT !.err = "ECDSA: invalid signature"]
          ELSE IF signer # v.payer
               THEN batchLoop_skipsForeign(c, vouchers, signatures, i + 1, L)
          ELSE IF ~(L.userBalance[v.payer] >= v.amount)
               THEN [L EXCEPT !.err = "payer insufficient balance in batch"]
          ELSE IF ~(L.reservedBalance[v.payer] >= v.amount)
               THEN [L EXCEPT !.err = "not enough reserved funds in batch"]
          ELSE batchLoop_skipsForeign(c, vouchers, signatures, i + 1, batchCommit(L, v))

\* The loop passing over an entry its payer cannot cover.
RECURSIVE batchLoop_skipsUnfunded(_, _, _, _, _)
batchLoop_skipsUnfunded(c, vouchers, signatures, i, L) ==
    IF i > Len(vouchers) THEN L
    ELSE
      LET v == vouchers[i]
          sig == signatures[i]
          digest == hashVoucher(v)
          signer == recover(digest, sig)
      IN  IF ~(c = v.merchant) THEN [L EXCEPT !.err = "caller not merchant"]
          ELSE IF ~(now <= v.expiry) THEN [L EXCEPT !.err = "voucher expired"]
          ELSE IF digest \in L.redeemed
               THEN batchLoop_skipsUnfunded(c, vouchers, signatures, i + 1, L)
          ELSE IF signer = "revert" THEN [L EXCEPT !.err = "ECDSA: invalid signature"]
          ELSE IF signer # v.payer
               THEN batchLoop_skipsUnfunded(c, vouchers, signatures, i + 1, L)
          ELSE IF ~(L.userBalance[v.payer] >= v.amount)
               THEN batchLoop_skipsUnfunded(c, vouchers, signatures, i + 1, L)
          ELSE IF ~(L.reservedBalance[v.payer] >= v.amount)
               THEN batchLoop_skipsUnfunded(c, vouchers, signatures, i + 1, L)
          ELSE batchLoop_skipsUnfunded(c, vouchers, signatures, i + 1, batchCommit(L, v))

\* The loop checking funds against the balances read when the call began.
RECURSIVE batchLoop_staleBalances(_, _, _, _, _)
batchLoop_staleBalances(c, vouchers, signatures, i, L) ==
    IF i > Len(vouchers) THEN L
    ELSE
      LET v == vouchers[i]
          sig == signatures[i]
          digest == hashVoucher(v)
          signer == recover(digest, sig)
      IN  IF ~(c = v.merchant) THEN [L EXCEPT !.err = "caller not merchant"]
          ELSE IF ~(now <= v.expiry) THEN [L EXCEPT !.err = "voucher expired"]
          ELSE IF digest \in L.redeemed
               THEN batchLoop_staleBalances(c, vouchers, signatures, i + 1, L)
          ELSE IF signer = "revert" THEN [L EXCEPT !.err = "ECDSA: invalid signature"]
          ELSE IF signer # v.payer
               THEN batchLoop_staleBalances(c, vouchers, signatures, i + 1, L)
          ELSE IF ~(userBalance[v.payer] >= v.amount)
               THEN [L EXCEPT !.err = "payer insufficient balance in batch"]
          ELSE IF ~(reservedBalance[v.payer] >= v.amount)
               THEN [L EXCEPT !.err = "not enough reserved funds in batch"]
          ELSE batchLoop_staleBalances(c, vouchers, signatures, i + 1, batchCommit(L, v))

\* The for loop of redeemBatch from index i on (1-based), on storage L.
\* A failed require ends the loop with its reason in L.err.
RECURSIVE batchLoop(_, _, _, _, _)
batchLoop(c, vouchers, signatures, i, L) ==
    IF i > Len(vouchers) THEN L
    ELSE
      LET v == vouchers[i]
          sig == signatures[i]
          digest == hashVoucher(v)
          signer == recover(digest, sig)
      IN  IF ~(c = v.merchant) THEN [L EXCEPT !.err = "caller not merchant"]
          ELSE IF ~(now <= v.expiry) THEN [L EXCEPT !.err = "voucher expired"]
          ELSE IF digest \in L.redeemed
               THEN batchLoop(c, vouchers, signatures, i + 1, L)
          ELSE IF signer = "revert" THEN [L EXCEPT !.err = "ECDSA: invalid signature"]
          ELSE IF signer # v.payer
               THEN batchLoop(c, vouchers, signatures, i + 1, L)
          ELSE IF ~(L.userBalance[v.payer] >= v.amount)
               THEN [L EXCEPT !.err = "payer insufficient balance in batch"]
          ELSE IF ~(L.reservedBalance[v.payer] >= v.amount)
               THEN [L EXCEPT !.err = "not enough reserved funds in batch"]
          ELSE batchLoop(c, vouchers, signatures, i + 1, batchCommit(L, v))

\* redeemBatch without the comparison of the two lengths; reading a
\* signature past the end of its array is an out-of-bounds panic.
redeemBatchRun_noLengthCheck(c, vouchers, signatures) ==
    IF Len(vouchers) > Len(signatures)
    THEN [Storage EXCEPT !.err = "panic: array out-of-bounds"]
    ELSE batchLoop(c, vouchers, signatures, 1, Storage)

\* The result of the whole call: the storage it leaves, or the revert reason.
redeemBatchRun(c, vouchers, signatures) ==
    IF ~(Len(vouchers) = Len(signatures))
    THEN [Storage EXCEPT !.err = "length mismatch"]
    ELSE batchLoop(c, vouchers, signatures, 1, Storage)

redeemBatch(c, vouchers, signatures) ==
    LET R == redeemBatchRun(c, vouchers, signatures)
    IN  /\ IF R.err = ""
           THEN /\ redeemed' = R.redeemed
                /\ userBalance' = R.userBalance
                /\ reservedBalance' = R.reservedBalance
                /\ merchantBalance' = R.merchantBalance
           ELSE UNCHANGED <<redeemed, userBalance, reservedBalance, merchantBalance>>
        /\ debited' = [a \in Accounts |-> debited[a] + (userBalance[a] - userBalance'[a])]
        /\ credited' = [a \in Accounts |->
                           credited[a] + (merchantBalance'[a] - merchantBalance[a])]
        /\ Returns(Call("redeemBatch", c,
                       [vouchers |-> vouchers, signatures |-> signatures]), R.err)
        /\ UNCHANGED <<musd, btc, trove, now, opens>>

\* PayceMicropayments.getVoucherHash: keccak256 of the five fields alone,
\* without the type hash and the domain separator of the contract's digest.
getVoucherHash(v) == <<v.payer, v.merchant, v.amount, v.nonce, v.expiry>>

\* PayceMicropayments.isVoucherRedeemed: the contract's redeemed(bytes32)
\* getter read at the SDK's hash.
isVoucherRedeemed(v) == \E digest \in redeemed : digest = getVoucherHash(v)

\* PayceMicropayments.redeemBatch up to executeWrite: "" when the batch is
\* submitted, else the message of the error thrown.  The reserved balance read
\* is that of the first voucher's payer, the sum that of every amount.
RECURSIVE totalAmount(_)
totalAmount(vouchers) ==
    IF Len(vouchers) = 0 THEN 0
    ELSE Head(vouchers).amount + totalAmount(Tail(vouchers))

sdkRedeemBatchErr(vouchers, signatures) ==
    LET invalid == {i \in 1..Len(vouchers) : validateVoucher(vouchers[i]) # ""}
        first == CHOOSE i \in invalid : \A j \in invalid : i <= j
    IN  IF Len(vouchers) # Len(signatures)
        THEN "Vouchers and signatures arrays must have the same length"
        ELSE IF Len(vouchers) = 0 THEN "At least one voucher is required"
        ELSE IF invalid # {} THEN validateVoucher(vouchers[first])
        ELSE IF reservedBalance[vouchers[1].payer] < totalAmount(vouchers)
             THEN "Insufficient reserved funds"
        ELSE ""

\* PayceMicropayments.redeemBatch sent from the merchant's wallet c: thrown
\* back by the SDK, or the contract call.
sdkRedeemBatch(c, vouchers, signatures) ==
    IF sdkRedeemBatchErr(vouchers, signatures) # ""
    THEN /\ Returns(Call("sdk.redeemBatch", c,
                         [vouchers |-> vouchers, signatures |-> signatures]),
                    sdkRedeemBatchErr(vouchers, signatures))
         /\ UNCHANGED <<userBalance, reservedBalance, merchantBalance, redeemed,
                        musd, btc, trove, now, opens, debited, credited>>
    ELSE redeemBatch(c, vouchers, signatures)

\* ------------------------------------------------ the trove (collaborator)
getBorrowingFee(debt) == (debt * borrowingFeeFloor) \div 10000

\* MockBorrowerOperations.openTrove called by PayceMUSD with `value` attached.
openTroveErr(value, debtAmount) ==
    IF ~(value > 0) THEN "need collateral"
    ELSE IF ~(debtAmount >= minNetDebt) THEN "below min debt"
    ELSE ""

\* MockBorrowerOperations.repayMUSD called by PayceMUSD holding `held` MUSD.
repayMUSDErr(amount, held) ==
    IF ~(trove.status = 1) THEN "no active trove"
    ELSE IF ~(amount > 0) THEN "amount must be > 0"
    ELSE IF held < amount THEN "ERC20: insufficient balance"
    ELSE IF trove.debt < amount THEN "panic: arithmetic underflow"
    ELSE ""

\* MockBorrowerOperations.closeTrove called by PayceMUSD holding `held` MUSD.
collabCloseErr(held) ==
    IF ~(trove.status = 1) THEN "no active trove"
    ELSE IF trove.debt < gasCompensation THEN "panic: arithmetic underflow"
    ELSE IF held < trove.debt - gasCompensation THEN "ERC20: insufficient balance"
    ELSE ""

\* ------------------------------------------------- the trove (PayceMUSD)
\* openTroveAndBorrow that credits the amount asked for, not the amount received.
openTroveAndBorrow_creditsRequested(c, value, musdAmount, depositToPurse) ==
    LET totalDebt == musdAmount + getBorrowingFee(musdAmount)
        musdReceived == totalDebt
        err == IF ~(value > 0) THEN "must send BTC collateral"
               ELSE IF ~(musdAmount > 0) THEN "must borrow >0 MUSD"
               ELSE IF ~(musdAmount >= minNetDebt) THEN "below minimum debt"
               ELSE IF openTroveErr(value, musdAmount) # ""
                    THEN openTroveErr(value, musdAmount)
               ELSE IF ~(musdReceived >= musdAmount) THEN "didnt receive expected MUSD"
               ELSE ""
    IN  /\ btc[c] >= value
        /\ IF err = ""
           THEN /\ btc' = [btc EXCEPT ![c] = @ - value]
                /\ trove' = [collateral |-> value, debt |-> totalDebt, status |-> 1]
                /\ opens' = opens + 1
                /\ IF depositToPurse
                   THEN /\ musd' = [musd EXCEPT !["payce"] = @ + totalDebt]
                        /\ userBalance' = [userBalance EXCEPT ![c] = @ + musdAmount]
                   ELSE /\ musd' = [musd EXCEPT ![c] = @ + musdAmount,
                                                !["payce"] = @ + totalDebt - musdAmount]
                        /\ UNCHANGED userBalance
           ELSE UNCHANGED <<btc, trove, opens, musd, userBalance>>
        /\ Returns(Call("openTroveAndBorrow", c,
                       [value |-> value, musdAmount |-> musdAmount,
                        depositToPurse |-> depositToPurse]), err)
        /\ UNCHANGED <<reservedBalance, merchantBalance, redeemed, now,
                       debited, credited>>

\* openTroveAndBorrow that accepts any positive amount of debt.
openTroveAndBorrow_noMinimum(c, value, musdAmount, depositToPurse) ==
    LET totalDebt == musdAmount + getBorrowingFee(musdAmount)
        musdReceived == totalDebt
        err == IF ~(value > 0) THEN "must send BTC collateral"
               ELSE IF ~(musdAmount > 0) THEN "must borrow >0 MUSD"
               ELSE IF ~(musdReceived >= musdAmount) THEN "didnt receive expected MUSD"
               ELSE ""
    IN  /\ btc[c] >= value
        /\ IF err = ""
           THEN /\ btc' = [btc EXCEPT ![c] = @ - value]
                /\ trove' = [collateral |-> value, debt |-> totalDebt, status |-> 1]
                /\ opens' = opens + 1
                /\ IF depositToPurse
                   THEN /\ musd' = [musd EXCEPT !["payce"] = @ + totalDebt]
                        /\ userBalance' = [userBalance EXCEPT ![c] = @ + musdReceived]
                   ELSE /\ musd' = [musd EXCEPT ![c] = @ + musdReceived]
                        /\ UNCHANGED userBalance
           ELSE UNCHANGED <<btc, trove, opens, musd, userBalance>>
        /\ Returns(Call("openTroveAndBorrow", c,
                       [value |-> value, musdAmount |-> musdAmount,
                        depositToPurse |-> depositToPurse]), err)
        /\ UNCHANGED <<reservedBalance, merchantBalance, redeemed, now,
                       debited, credited>>

openTroveAndBorrow(c, value, musdAmount, depositToPurse) ==
    LET totalDebt == musdAmount + getBorrowingFee(musdAmount)
        musdReceived == totalDebt      \* musdAfter - musdBefore: the mint
        err == IF ~(value > 0) THEN "must send BTC collateral"
               ELSE IF ~(musdAmount > 0) THEN "must borrow >0 MUSD"
               ELSE IF ~(musdAmount >= minNetDebt) THEN "below minimum debt"
               ELSE IF openTroveErr(value, musdAmount) # ""
                    THEN openTroveErr(value, musdAmount)
               ELSE IF ~(musdReceived >= musdAmount) THEN "didnt receive expected MUSD"
               ELSE ""
    IN  /\ btc[c] >= value
        /\ IF err = ""
           THEN /\ btc' = [btc EXCEPT ![c] = @ - value]
                /\ trove' = [collateral |-> value, debt |-> totalDebt, status |-> 1]
                /\ opens' = opens + 1
                /\ IF depositToPurse
                   THEN /\ musd' = [musd EXCEPT !["payce"] = @ + totalDebt]
                        /\ userBalance' = [userBalance EXCEPT ![c] = @ + musdReceived]
                   ELSE /\ musd' = [musd EXCEPT ![c] = @ + musdReceived]
                        /\ UNCHANGED userBalance
           ELSE UNCHANGED <<btc, trove, opens, musd, userBalance>>
        /\ Returns(Call("openTroveAndBorrow", c,
                       [value |-> value, musdAmount |-> musdAmount,
                        depositToPurse |-> depositToPurse]), err)
        /\ UNCHANGED <<reservedBalance, merchantBalance, redeemed, now,
                       debited, credited>>

\* repayLoan whose purse debit outlives a failure of the collaborator.
repayLoan_keepsDebit(c, amount, fromPurse) ==
    LET held == IF fromPurse THEN musd["payce"] ELSE musd["payce"] + amount
        err == IF ~(amount > 0) THEN "amount must be >0"
               ELSE IF fromPurse /\ ~(amount <= availableBalance(c))
                    THEN "insufficient purse balance"
               ELSE IF ~fromPurse /\ musd[c] < amount
                    THEN "ERC20: insufficient balance"
               ELSE repayMUSDErr(amount, held)
    IN  /\ IF err = ""
           THEN /\ IF fromPurse
                   THEN /\ userBalance' = [userBalance EXCEPT ![c] = @ - amount]
                        /\ musd' = [musd EXCEPT !["payce"] = @ - amount]
                   ELSE /\ musd' = [musd EXCEPT ![c] = @ - amount]
                        /\ UNCHANGED userBalance
                /\ trove' = [trove EXCEPT !.debt = @ - amount]
           ELSE /\ IF fromPurse /\ amount > 0 /\ amount <= availableBalance(c)
                   THEN userBalance' = [userBalance EXCEPT ![c] = @ - amount]
                   ELSE UNCHANGED userBalance
                /\ UNCHANGED <<musd, trove>>
        /\ Returns(Call("repayLoan", c, [amount |-> amount, fromPurse |-> fromPurse]), err)
        /\ UNCHANGED <<reservedBalance, merchantBalance, redeemed, btc, now,
                       opens, debited, credited>>

\* repayLoan that pays from the contract without debiting the purse.
repayLoan_keepsPurse(c, amount, fromPurse) ==
    LET held == IF fromPurse THEN musd["payce"] ELSE musd["payce"] + amount
        err == IF ~(amount > 0) THEN "amount must be >0"
               ELSE IF fromPurse /\ ~(amount <= availableBalance(c))
                    THEN "insufficient purse balance"
               ELSE IF ~fromPurse /\ musd[c] < amount
                    THEN "ERC20: insufficient balance"
               ELSE repayMUSDErr(amount, held)
    IN  /\ IF err = ""
           THEN /\ IF fromPurse
                   THEN /\ UNCHANGED userBalance
                        /\ musd' = [musd EXCEPT !["payce"] = @ - amount]
                   ELSE /\ musd' = [musd EXCEPT ![c] = @ - amount]
                        /\ UNCHANGED userBalance
                /\ trove' = [trove EXCEPT !.debt = @ - amount]
           ELSE UNCHANGED <<userBalance, musd, trove>>
        /\ Returns(Call("repayLoan", c, [amount |-> amount, fromPurse |-> fromPurse]), err)
        /\ UNCHANGED <<reservedBalance, merchantBalance, redeemed, btc, now,
                       opens, debited, credited>>

\* repayLoan that checks the purse total, not the unreserved part of it.
repayLoan_ignoresReserved(c, amount, fromPurse) ==
    LET held == IF fromPurse THEN musd["payce"] ELSE musd["payce"] + amount
        err == IF ~(amount > 0) THEN "amount must be >0"
               ELSE IF fromPurse /\ ~(amount <= userBalance[c])
                    THEN "insufficient purse balance"
               ELSE IF ~fromPurse /\ musd[c] < amount
                    THEN "ERC20: insufficient balance"
               ELSE repayMUSDErr(amount, held)
    IN  /\ IF err = ""
           THEN /\ IF fromPurse
                   THEN /\ userBalance' = [userBalance EXCEPT ![c] = @ - amount]
                        /\ musd' = [musd EXCEPT !["payce"] = @ - amount]
                   ELSE /\ musd' = [musd EXCEPT ![c] = @ - amount]
                        /\ UNCHANGED userBalance
                /\ trove' = [trove EXCEPT !.debt = @ - amount]
           ELSE UNCHANGED <<userBalance, musd, trove>>
        /\ Returns(Call("repayLoan", c, [amount |-> amount, fromPurse |-> fromPurse]), err)
        /\ UNCHANGED <<reservedBalance, merchantBalance, redeemed, btc, now,
                       opens, debited, credited>>

\* repayLoan that takes a purse-funded repayment out of the reservation too.
repayLoan_fromReserved(c, amount, fromPurse) ==
    LET held == IF fromPurse THEN musd["payce"] ELSE musd["payce"] + amount
        err == IF ~(amount > 0) THEN "amount must be >0"
               ELSE IF fromPurse /\ ~(amount <= availableBalance(c))
                    THEN "insufficient purse balance"
               ELSE IF ~fromPurse /\ musd[c] < amount
                    THEN "ERC20: insufficient balance"
               ELSE repayMUSDErr(amount, held)
        left == IF reservedBalance[c] <= amount THEN 0 ELSE reservedBalance[c] - amount
    IN  /\ IF err = ""
           THEN /\ IF fromPurse
                   THEN /\ userBalance' = [userBalance EXCEPT ![c] = @ - amount]
                        /\ reservedBalance' = [reservedBalance EXCEPT ![c] = left]
                        /\ musd' = [musd EXCEPT !["payce"] = @ - amount]
                   ELSE /\ musd' = [musd EXCEPT ![c] = @ - amount]
                        /\ UNCHANGED <<userBalance, reservedBalance>>
                /\ trove' = [trove EXCEPT !.debt = @ - amount]
           ELSE UNCHANGED <<userBalance, reservedBalance, musd, trove>>
        /\ Returns(Call("repayLoan", c, [amount |-> amount, fromPurse |-> fromPurse]), err)
        /\ UNCHANGED <<merchantBalance, redeemed, btc, now, opens, debited, credited>>

repayLoan(c, amount, fromPurse) ==
    LET held == IF fromPurse THEN musd["payce"] ELSE musd["payce"] + amount
        err == IF ~(amount > 0) THEN "amount must be >0"
               ELSE IF fromPurse /\ ~(amount <= availableBalance(c))
                    THEN "insufficient purse balance"
               ELSE IF ~fromPurse /\ musd[c] < amount
                    THEN "ERC20: insufficient balance"
               ELSE repayMUSDErr(amount, held)
    IN  /\ IF err = ""
           THEN /\ IF fromPurse
                   THEN /\ userBalance' = [userBalance EXCEPT ![c] = @ - amount]
                        /\ musd' = [musd EXCEPT !["payce"] = @ - amount]
                   ELSE /\ musd' = [musd EXCEPT ![c] = @ - amount]
                        /\ UNCHANGED userBalance
                /\ trove' = [trove EXCEPT !.debt = @ - amount]
           ELSE UNCHANGED <<userBalance, musd, trove>>
        /\ Returns(Call("repayLoan", c, [amount |-> amount, fromPurse |-> fromPurse]), err)
        /\ UNCHANGED <<reservedBalance, merchantBalance, redeemed, btc, now,
                       opens, debited, credited>>

\* closeTrove that checks the purse total, not the unreserved part of it.
closeTrove_ignoresReserved(c, fromPurse) ==
    LET totalDebt == trove.debt
        musdNeeded == totalDebt - gasCompensation
        held == IF fromPurse THEN musd["payce"] ELSE musd["payce"] + musdNeeded
        err == IF totalDebt < gasCompensation THEN "panic: arithmetic underflow"
               ELSE IF ~(musdNeeded > 0) THEN "no debt to repay"
               ELSE IF fromPurse /\ ~(musdNeeded <= userBalance[c])
                    THEN "insufficient purse balance"
               ELSE IF ~fromPurse /\ musd[c] < musdNeeded
                    THEN "ERC20: insufficient balance"
               ELSE collabCloseErr(held)
    IN  /\ IF err = ""
           THEN /\ IF fromPurse
                   THEN /\ userBalance' = [userBalance EXCEPT ![c] = @ - musdNeeded]
                        /\ musd' = [musd EXCEPT !["payce"] = @ - musdNeeded]
                   ELSE /\ musd' = [musd EXCEPT ![c] = @ - musdNeeded]
                        /\ UNCHANGED userBalance
                /\ btc' = [btc EXCEPT ![c] = @ + trove.collateral]
                /\ trove' = [collateral |-> 0, debt |-> 0, status |-> 2]
           ELSE UNCHANGED <<userBalance, musd, btc, trove>>
        /\ Returns(Call("closeTrove", c, [fromPurse |-> fromPurse]), err)
        /\ UNCHANGED <<reservedBalance, merchantBalance, redeemed, now, opens,
                       debited, credited>>

closeTrove(c, fromPurse) ==
    LET totalDebt == trove.debt     \* principal + interest; the mock keeps interest 0
        musdNeeded == totalDebt - gasCompensation
        held == IF fromPurse THEN musd["payce"] ELSE musd["payce"] + musdNeeded
        err == IF totalDebt < gasCompensation THEN "panic: arithmetic underflow"
               ELSE IF ~(musdNeeded > 0) THEN "no debt to repay"
               ELSE IF fromPurse /\ ~(musdNeeded <= availableBalance(c))
                    THEN "insufficient purse balance"
               ELSE IF ~fromPurse /\ musd[c] < musdNeeded
                    THEN "ERC20: insufficient balance"
               ELSE collabCloseErr(held)
    IN  /\ IF err = ""
           THEN /\ IF fromPurse
                   THEN /\ userBalance' = [userBalance EXCEPT ![c] = @ - musdNeeded]
                        /\ musd' = [musd EXCEPT !["payce"] = @ - musdNeeded]
                   ELSE /\ musd' = [musd EXCEPT ![c] = @ - musdNeeded]
                        /\ UNCHANGED userBalance
                /\ btc' = [btc EXCEPT ![c] = @ + trove.collateral]
                /\ trove' = [collateral |-> 0, debt |-> 0, status |-> 2]
           ELSE UNCHANGED <<userBalance, musd, btc, trove>>
        /\ Returns(Call("closeTrove", c, [fromPurse |-> fromPurse]), err)
        /\ UNCHANGED <<reservedBalance, merchantBalance, redeemed, now, opens,
                       debited, credited>>

\* refinanceLoan: the collaborator sets the trove's rate to the global rate,
\* which never changes, so a successful call leaves the trove as it was.
refinanceLoan(c) ==
    LET err == IF ~(trove.status = 1) THEN "no active trove" ELSE ""
    IN  /\ Returns(Call("refinanceLoan", c, <<>>), err)
        /\ UNCHANGED <<userBalance, reservedBalance, merchantBalance, redeemed,
                       musd, btc, trove, now, opens, debited, credited>>

\* addCollateral with `value` attached.
addCollateral(c, value) ==
    LET err == IF ~(value > 0) THEN "must send BTC"
               ELSE IF ~(trove.status = 1) THEN "no active trove"
               ELSE ""
    IN  /\ btc[c] >= value
        /\ IF err = ""
           THEN /\ btc' = [btc EXCEPT ![c] = @ - value]
                /\ trove' = [trove EXCEPT !.collateral = @ + value]
           ELSE UNCHANGED <<btc, trove>>
        /\ Returns(Call("addCollateral", c, [value |-> value]), err)
        /\ UNCHANGED <<userBalance, reservedBalance, merchantBalance, redeemed,
                       musd, now, opens, debited, credited>>

\* withdrawCollateral: what the collaborator sends back is forwarded to the
\* caller.
withdrawCollateral(c, amount) ==
    LET err == IF ~(amount > 0) THEN "amount must be >0"
               ELSE IF ~(trove.status = 1) THEN "no active trove"
               ELSE IF ~(trove.collateral >= amount) THEN "insufficient collateral"
               ELSE ""
    IN  /\ IF err = ""
           THEN /\ trove' = [trove EXCEPT !.collateral = @ - amount]
                /\ btc' = [btc EXCEPT ![c] = @ + amount]
           ELSE UNCHANGED <<btc, trove>>
        /\ Returns(Call("withdrawCollateral", c, [amount |-> amount]), err)
        /\ UNCHANGED <<userBalance, reservedBalance, merchantBalance, redeemed,
                       musd, now, opens, debited, credited>>

\* ------------------------------------------------- the trove (SDK)
\* PayceBorrowing.closeTrove: reads getLoanDetails and getUserBalances, then
\* sends the contract call from the wallet of c.
sdkCloseTroveErr(c, fromPurse) ==
    LET isActive == trove.status = 1
        totalDebt == trove.debt
    IN  IF ~isActive THEN "Trove is not active"
        ELSE IF fromPurse /\ availableBalance(c) < totalDebt
             THEN "Insufficient purse balance to close trove"
        ELSE ""

sdkCloseTrove(c, fromPurse) ==
    IF sdkCloseTroveErr(c, fromPurse) # ""
    THEN /\ Returns(Call("sdk.closeTrove", c, [fromPurse |-> fromPurse]),
                    sdkCloseTroveErr(c, fromPurse))
         /\ UNCHANGED <<userBalance, reservedBalance, merchantBalance, redeemed,
                        musd, btc, trove, now, opens, debited, credited>>
    ELSE closeTrove(c, fromPurse)

\* PayceBorrowing.openTroveAndBorrow up to executeWrite: the is-active check
\* and the minimum-amount check.  A request that passes waits to be sent.
Request(c, value, musdAmount, depositToPurse) ==
    [caller |-> c, value |-> value, musdAmount |-> musdAmount,
     depositToPurse |-> depositToPurse]

sdkOpenTroveCheck(c, value, musdAmount, depositToPurse) ==
    LET isActive == trove.status = 1
        minBorrow == minNetDebt
        err == IF isActive THEN "Trove is already active"
               ELSE IF musdAmount < minBorrow THEN "Minimum borrow amount"
               ELSE ""
    IN  /\ \A r \in pending : r.caller # c
        /\ Cardinality(pending) < MaxPending
        /\ IF err # ""
           THEN /\ Returns(Call("sdk.openTroveAndBorrow", c,
                                [value |-> value, musdAmount |-> musdAmount,
                                 depositToPurse |-> depositToPurse]), err)
                /\ UNCHANGED pending
           ELSE /\ pending' = pending \cup {Request(c, value, musdAmount, depositToPurse)}
                /\ UNCHANGED <<last, frame>>
        /\ UNCHANGED <<userBalance, reservedBalance, merchantBalance, redeemed,
                       musd, btc, trove, now, opens, debited, credited>>

\* executeWrite of a request that passed its checks: the contract call.
sdkOpenTroveSubmit(r) ==
    /\ r \in pending
    /\ pending' = pending \ {r}
    /\ openTroveAndBorrow(r.caller, r.value, r.musdAmount, r.depositToPurse)

\* ------------------------------------------------- the risk views
\* MockTroveManager.getCurrentICR at the price the feed reports: the value of
\* the collateral over the debt, in fixed point, 0 when there is no debt.
getCurrentICR(price) ==
    IF trove.debt = 0 THEN 0
    ELSE LET collateralValue == trove.collateral * price
         IN  (collateralValue * ONE) \div trove.debt

\* (icr * 100) / 1e18 in checked unsigned arithmetic: the product reverts
\* when it does not fit the word.
percentErr(icr) == IF icr > MaxUint \div 100 THEN "panic: arithmetic overflow" ELSE ""
percent(icr) == (icr * 100) \div ONE

\* What a view call returns, or the reason it reverts with.
Reads(op, icr, ret) ==
    /\ last' = [op |-> op, caller |-> "none", args |-> [icr |-> icr],
                ok |-> (percentErr(icr) = ""), err |-> percentErr(icr),
                ret |-> IF percentErr(icr) = "" THEN ret ELSE <<>>,
                prev |-> last]
    /\ UNCHANGED <<userBalance, reservedBalance, merchantBalance, redeemed, musd,
                   btc, trove, now, opens, debited, credited, frame, pending>>

\* getCollateralizationRatioPercent, the collaborator reporting icr.
getCollateralizationRatioPercent(icr) ==
    Reads("getCollateralizationRatioPercent", icr,
          IF percentErr(icr) = "" THEN percent(icr) ELSE 0)

\* isAtLiquidationRisk with the threshold itself counted as at risk.
isAtLiquidationRisk_inclusive(icr) ==
    Reads("isAtLiquidationRisk", icr,
          IF percentErr(icr) = ""
          THEN [atRisk |-> percent(icr) <= 110, currentICR |-> percent(icr)]
          ELSE <<>>)

\* isAtLiquidationRisk, the collaborator reporting icr.
isAtLiquidationRisk(icr) ==
    Reads("isAtLiquidationRisk", icr,
          IF percentErr(icr) = ""
          THEN [atRisk |-> percent(icr) < 110, currentICR |-> percent(icr)]
          ELSE <<>>)

\* ------------------------------------- the trove (SDK, requests in flight)
\* PayceBorrowing.repayLoan, closeTrove, refinanceLoan, addCollateral and
\* withdrawCollateral up to executeWrite: the reads and the checks on them.
\* currentICR <= 110 is computed on the ratio as icr / (1e18 / 100) <= 110.
sdkTroveErr(r) ==
    LET isActive == trove.status = 1
        icr == getCurrentICR(Price)
    IN  IF ~isActive THEN "Trove is not active"
        ELSE IF r.op = "repayLoan" /\ r.args.fromPurse
                /\ availableBalance(r.caller) < r.args.amount
             THEN "Insufficient purse balance"
        ELSE IF r.op = "closeTrove"
             THEN sdkCloseTroveErr(r.caller, r.args.fromPurse)
        ELSE IF r.op = "withdrawCollateral" /\ icr \div (ONE \div 100) <= 110
             THEN "Cannot withdraw collateral: would violate minimum ICR requirement"
        ELSE ""

\* A request that passes its checks waits to be sent; one that does not is
\* thrown back to the caller.
sdkTroveCheck(op, c, args) ==
    LET r == Call(op, c, args)
    IN  /\ \A q \in pending : q.caller # c
        /\ Cardinality(pending) < MaxFlight
        /\ IF sdkTroveErr(r) # ""
           THEN /\ Returns(Call("sdk." \o op, c, args), sdkTroveErr(r))
                /\ UNCHANGED pending
           ELSE /\ pending' = pending \cup {r}
                /\ UNCHANGED <<last, frame>>
        /\ UNCHANGED <<userBalance, reservedBalance, merchantBalance, redeemed,
                       musd, btc, trove, now, opens, debited, credited>>

\* executeWrite of a request that passed its checks: the contract call.
sdkTroveSubmit(r) ==
    /\ r \in pending
    /\ pending' = pending \ {r}
    /\ CASE r.op = "repayLoan" -> repayLoan(r.caller, r.args.amount, r.args.fromPurse)
         [] r.op = "closeTrove" -> closeTrove(r.caller, r.args.fromPurse)
         [] r.op = "refinanceLoan" -> refinanceLoan(r.caller)
         [] r.op = "addCollateral" -> addCollateral(r.caller, r.args.value)
         [] r.op = "withdrawCollateral" -> withdrawCollateral(r.caller, r.args.amount)

\* ------------------------------------------------------------------ time
Tick ==
    /\ now < MaxTime
    /\ now' = now + 1
    /\ UNCHANGED <<userBalance, reservedBalance, merchantBalance, redeemed, musd,
                   btc, trove, opens, debited, credited, last, frame, pending>>

\* ------------------------------------------------------------- the inputs
\* Sequences of up to MaxBatch pool entries.
Batches == UNION {[1..n -> Pool] : n \in 0..MaxBatch}

VouchersOf(es) == [i \in 1..Len(es) |-> es[i].v]

SignaturesOf(es) == [i \in 1..Len(es) |-> es[i].sig]

MerchantsOf(es) == {es[i].v.merchant : i \in 1..Len(es)}

DropLast(q) == SubSeq(q, 1, Len(q) - 1)

\* The redeemBatch calls drawn: every caller with batches of at most one
\* entry; for longer batches the callers some entry names (any other caller
\* reverts at entry 0 whatever follows); and, for each of those, the call
\* with one signature or one voucher missing.
BatchCalls ==
    LET full == {[c |-> c, es |-> es] : c \in Accounts, es \in Batches}
        kept == {x \in full : Len(x.es) <= 1 \/ x.c \in MerchantsOf(x.es)}
    IN  {[c |-> x.c, vouchers |-> VouchersOf(x.es),
          signatures |-> SignaturesOf(x.es)] : x \in kept}
        \cup {[c |-> x.c, vouchers |-> VouchersOf(x.es),
               signatures |-> DropLast(SignaturesOf(x.es))] :
                  x \in {y \in kept : Len(y.es) > 0}}
        \cup {[c |-> x.c, vouchers |-> DropLast(VouchersOf(x.es)),
               signatures |-> SignaturesOf(x.es)] :
                  x \in {y \in kept : Len(y.es) > 0}}

Next ==
    \/ Live /\ UNCHANGED pending /\ \E c \in Accounts, amount \in Amounts : deposit(c, amount)
    \/ Live /\ UNCHANGED pending /\ \E c \in Accounts, amount \in Amounts : withdrawUser(c, amount)
    \/ Live /\ UNCHANGED pending /\ \E c \in Accounts, amount \in Amounts : reserveFunds(c, amount)
    \/ Live /\ UNCHANGED pending /\ \E c \in Accounts, amount \in Amounts : releaseReserved(c, amount)
    \/ Live /\ UNCHANGED pending /\ \E c \in Accounts, amount \in Amounts : withdrawMerchant(c, amount)
    \/ Live /\ UNCHANGED pending /\ \E c \in Accounts, e \in Pool : redeemVoucher(c, e.v, e.sig)
    \/ Live /\ UNCHANGED pending /\ \E x \in BatchCalls : redeemBatch(x.c, x.vouchers, x.signatures)
    \/ Live /\ UNCHANGED pending /\ \E c \in Accounts, e \in Pool : sdkRedeemVoucher(c, e.v, e.sig)
    \/ Live /\ UNCHANGED pending /\ \E c \in Accounts, value \in Collaterals, musdAmount \in BorrowAmounts,
          depositToPurse \in BOOLEAN :
          openTroveAndBorrow(c, value, musdAmount, depositToPurse)
          /\ opens' <= MaxOpens
    \/ Live /\ UNCHANGED pending /\ \E c \in Accounts, amount \in Amounts, fromPurse \in BOOLEAN :
          repayLoan(c, amount, fromPurse)
    \/ Live /\ UNCHANGED pending /\ \E c \in Accounts, fromPurse \in BOOLEAN : closeTrove(c, fromPurse)
    \/ Live /\ UNCHANGED pending /\ Tick

Spec == Init /\ [][Next]_vars

SpecFunded == InitFunded /\ [][Next]_vars

\* The purse operations alone, on alice's 1000 MUSD, with the amounts of the
\* end-to-end purse scenario.
ScenarioAmounts == {400, 500, 600, 700, 1000}

NextScenario ==
    \/ Live /\ UNCHANGED pending /\ \E c \in Accounts, amount \in ScenarioAmounts : deposit(c, amount)
    \/ Live /\ UNCHANGED pending /\ \E c \in Accounts, amount \in ScenarioAmounts : withdrawUser(c, amount)
    \/ Live /\ UNCHANGED pending /\ \E c \in Accounts, amount \in ScenarioAmounts : reserveFunds(c, amount)
    \/ Live /\ UNCHANGED pending /\ \E c \in Accounts, amount \in ScenarioAmounts :
                  releaseReserved(c, amount)
    \* the caller of an observed reserveFunds following it up at once
    \/ /\ UNCHANGED pending
       /\ last.op = "reserveFunds" /\ last.ok
       /\ \E amount \in ScenarioAmounts : releaseReserved(last.caller, amount)
       /\ last' # last

SpecScenario == InitFunded /\ [][NextScenario]_vars

\* A payer's reservations, releases and the redemptions of their vouchers
\* observed in a row, on alice's 1000 MUSD.
RECURSIVE Depth(_)
Depth(call) == IF call.op = "none" THEN 0 ELSE 1 + Depth(call.prev)

Followed ==
    /\ last.op \in {"reserveFunds", "releaseReserved"}
    /\ last.ok
    /\ Depth(last) < MaxChain

NextChain ==
    \/ Live /\ UNCHANGED pending /\ \E c \in Accounts, amount \in Amounts : deposit(c, amount)
    \/ Live /\ UNCHANGED pending /\ \E c \in Accounts, amount \in Amounts : withdrawUser(c, amount)
    \/ Live /\ UNCHANGED pending /\ \E c \in Accounts, amount \in Amounts : reserveFunds(c, amount)
    \/ Live /\ UNCHANGED pending /\ \E c \in Accounts, amount \in Amounts : releaseReserved(c, amount)
    \/ Live /\ UNCHANGED pending /\ \E c \in Accounts, e \in Pool : redeemVoucher(c, e.v, e.sig)
    \/ Tick
    \* the payer of an observed reservation or release acting again
    \/ /\ UNCHANGED pending
       /\ Followed
       /\ \E amount \in Amounts : reserveFunds(last.caller, amount)
       /\ last' # last
    \/ /\ UNCHANGED pending
       /\ Followed
       /\ \E amount \in Amounts : releaseReserved(last.caller, amount)
       /\ last' # last
    \* a merchant presenting one of that payer's vouchers
    \/ /\ UNCHANGED pending
       /\ Followed
       /\ \E e \in Pool : /\ e.v.payer = last.caller
                          /\ redeemVoucher(e.v.merchant, e.v, e.sig)
       /\ last' # last

SpecChain == InitFunded /\ [][NextChain]_vars

\* The trove through the SDK and the contract, with the purse operations that
\* fund a repayment; the collaborator may accept a second openTrove.
NextBorrow ==
    \/ Live /\ UNCHANGED pending /\ \E c \in Accounts, amount \in Amounts : deposit(c, amount)
    \/ Live /\ UNCHANGED pending /\ \E c \in Accounts, amount \in Amounts : reserveFunds(c, amount)
    \/ Live /\ UNCHANGED pending /\ \E c \in Accounts, amount \in Amounts, fromPurse \in BOOLEAN :
          repayLoan(c, amount, fromPurse)
    \/ Live /\ UNCHANGED pending /\ \E c \in Accounts, fromPurse \in BOOLEAN : closeTrove(c, fromPurse)
    \/ Live /\ UNCHANGED pending /\ \E c \in Accounts, fromPurse \in BOOLEAN :
          sdkCloseTrove(c, fromPurse)
    \/ Live /\ \E c \in Accounts, value \in Collaterals, musdAmount \in BorrowAmounts,
          depositToPurse \in BOOLEAN :
          sdkOpenTroveCheck(c, value, musdAmount, depositToPurse)
    \/ Live /\ \E r \in pending : sdkOpenTroveSubmit(r) /\ opens' <= MaxReopens

SpecBorrow == Init /\ [][NextBorrow]_vars

\* The risk views on every ratio the collaborator may report, and on the
\* ratio of the contract's own position at a price of the feed.
Ratios == (0..1300) \cup ((MaxUint \div 100 - 3)..(MaxUint \div 100 + 3)) \cup {MaxUint}
Prices == {0, 2000, 2202, 2203, 100000}

NextRisk ==
    \/ Live /\ UNCHANGED pending
            /\ \E c \in Accounts, value \in Collaterals, musdAmount \in BorrowAmounts,
                  depositToPurse \in BOOLEAN :
                  openTroveAndBorrow(c, value, musdAmount, depositToPurse)
                  /\ opens' <= MaxOpens /\ last' = last
    \/ Live /\ \E icr \in Ratios : getCollateralizationRatioPercent(icr)
    \/ Live /\ \E icr \in Ratios : isAtLiquidationRisk(icr)
    \/ Live /\ \E price \in Prices : isAtLiquidationRisk(getCurrentICR(price))

SpecRisk == Init /\ [][NextRisk]_vars

\* Batches handed to the SDK: the pool's entries, a voucher of a second
\* payer for the same merchant and a voucher alice pays herself with.
v5 == Voucher("carol", "bob", 1000, 1, 2)

v6 == Voucher("alice", "alice", 1000, 4, 2)

BatchPool ==
    Pool \cup {Entry(v5, Sign("carol", hashVoucher(v5))),
               Entry(v6, Sign("alice", hashVoucher(v6)))}

SdkBatches == UNION {[1..n -> BatchPool] : n \in 0..MaxBatch}

SdkBatchCalls ==
    {[c |-> c, vouchers |-> VouchersOf(es), signatures |-> SignaturesOf(es)] :
        c \in Accounts, es \in SdkBatches}
    \cup {[c |-> c, vouchers |-> VouchersOf(es),
           signatures |-> DropLast(SignaturesOf(es))] :
             c \in Accounts, es \in {y \in SdkBatches : Len(y) > 0}}

NextBatch ==
    \/ Live /\ UNCHANGED pending
            /\ \E c \in Accounts, value \in Collaterals, musdAmount \in BorrowAmounts,
                  depositToPurse \in BOOLEAN :
                  openTroveAndBorrow(c, value, musdAmount, depositToPurse)
                  /\ opens' <= MaxOpens
    \/ Live /\ UNCHANGED pending /\ \E c \in Accounts, amount \in Amounts : reserveFunds(c, amount)
    \/ Live /\ UNCHANGED pending /\ \E c \in Accounts, e \in BatchPool : redeemVoucher(c, e.v, e.sig)
    \/ Live /\ UNCHANGED pending /\ \E x \in SdkBatchCalls :
          sdkRedeemBatch(x.c, x.vouchers, x.signatures)
    \/ Tick

SpecBatch == Init /\ [][NextBatch]_vars

\* The same ledger with the batches sent to the contract.
NextRedeem ==
    \/ Live /\ UNCHANGED pending
            /\ \E c \in Accounts, value \in Collaterals, musdAmount \in BorrowAmounts,
                  depositToPurse \in BOOLEAN :
                  openTroveAndBorrow(c, value, musdAmount, depositToPurse)
                  /\ opens' <= MaxOpens
    \/ Live /\ UNCHANGED pending /\ \E c \in Accounts, amount \in Amounts : reserveFunds(c, amount)
    \/ Live /\ UNCHANGED pending /\ \E c \in Accounts, e \in BatchPool : redeemVoucher(c, e.v, e.sig)
    \/ Live /\ UNCHANGED pending /\ \E x \in SdkBatchCalls :
          redeemBatch(x.c, x.vouchers, x.signatures)
    \/ Tick

SpecRedeem == Init /\ [][NextRedeem]_vars

\* The purse funded by a borrowing, and the SDK's writes on it with every
\* outcome of their transaction.
NextWrite ==
    \/ Live /\ UNCHANGED pending
            /\ \E c \in Accounts, value \in Collaterals, musdAmount \in BorrowAmounts,
                  depositToPurse \in BOOLEAN :
                  openTroveAndBorrow(c, value, musdAmount, depositToPurse)
                  /\ opens' <= MaxOpens
    \/ Live /\ UNCHANGED pending /\ \E c \in Accounts, amount \in Amounts : deposit(c, amount)
    \/ Live /\ UNCHANGED pending /\ \E c \in Accounts, amount \in Amounts : reserveFunds(c, amount)
    \/ Live /\ UNCHANGED pending /\ \E c \in Accounts, amount \in Amounts,
                                       sent \in Outcomes \cup {"none"} :
          sdkDeposit(c, amount, sent)
    \/ Live /\ UNCHANGED pending /\ \E c \in Accounts, amount \in Amounts,
                                       sent \in Outcomes \cup {"none"} :
          sdkWithdrawUser(c, amount, sent)
    \/ Live /\ UNCHANGED pending /\ \E c \in Accounts, e \in Pool,
                                       sent \in Outcomes \cup {"none"} :
          sdkRedeemVoucherResult(c, e.v, e.sig, sent)
    \/ Tick

SpecWrite == Init /\ [][NextWrite]_vars

\* The trove's whole life, called on the contract and asked of the SDK by
\* several accounts.
CollateralAmounts == {0, 1, 2}

\* The accounts that borrow here: one that opens, one that interferes.
Borrowers == {"alice", "bob"}

NextTrove ==
    \/ Live /\ UNCHANGED pending
            /\ \E c \in Borrowers, value \in Collaterals, musdAmount \in BorrowAmounts,
                  depositToPurse \in BOOLEAN :
                  openTroveAndBorrow(c, value, musdAmount, depositToPurse)
                  /\ opens' <= MaxReopens
    \/ Live /\ UNCHANGED pending /\ \E c \in Borrowers, amount \in Amounts, fromPurse \in BOOLEAN :
          repayLoan(c, amount, fromPurse)
    \/ Live /\ UNCHANGED pending /\ \E c \in Borrowers, fromPurse \in BOOLEAN : closeTrove(c, fromPurse)
    \/ Live /\ UNCHANGED pending /\ \E c \in Borrowers : refinanceLoan(c)
    \/ Live /\ UNCHANGED pending /\ \E c \in Borrowers, value \in Collaterals : addCollateral(c, value)
    \/ Live /\ UNCHANGED pending /\ \E c \in Borrowers, amount \in CollateralAmounts :
          withdrawCollateral(c, amount)
    \/ Live /\ \E c \in Borrowers, amount \in Amounts, fromPurse \in BOOLEAN :
          sdkTroveCheck("repayLoan", c, [amount |-> amount, fromPurse |-> fromPurse])
    \/ Live /\ \E c \in Borrowers, fromPurse \in BOOLEAN :
          sdkTroveCheck("closeTrove", c, [fromPurse |-> fromPurse])
    \/ Live /\ \E c \in Borrowers : sdkTroveCheck("refinanceLoan", c, <<>>)
    \/ Live /\ \E c \in Borrowers, value \in Collaterals :
          sdkTroveCheck("addCollateral", c, [value |-> value])
    \/ Live /\ \E c \in Borrowers, amount \in CollateralAmounts :
          sdkTroveCheck("withdrawCollateral", c, [amount |-> amount])
    \/ Live /\ \E r \in pending : sdkTroveSubmit(r)

SpecTrove == Init /\ [][NextTrove]_vars

\* --------------------------------------------- statement by statement
\* The six entry points that move tokens, executed one statement at a time in
\* the order of the source.  A frame keeps the call, the position in its body,
\* the chain as it was on entry (a revert restores it) and the ledger as a
\* callee of the first external call finds it.
Unseen == <<>>
Snapshot == <<userBalance, reservedBalance, merchantBalance, redeemed, musd,
              btc, trove, opens>>

Stmt(k, cond, who, to, amt) ==
    [k |-> k, cond |-> cond, who |-> who, to |-> to, amt |-> amt]
Require(cond) == Stmt("require", cond, "none", "none", 0)
Credit(who, amt) == Stmt("userBalance+=", TRUE, who, "none", amt)
Debit(who, amt) == Stmt("userBalance-=", TRUE, who, "none", amt)
DebitMerchant(who, amt) == Stmt("merchantBalance-=", TRUE, who, "none", amt)
Transfer(from, to, amt) == Stmt("transfer", TRUE, from, to, amt)
Approve(amt) == Stmt("approve", TRUE, "payce", "none", amt)
Collaborator(fn, amt) == Stmt(fn, TRUE, "payce", "none", amt)
SendValue(to, amt) == Stmt("sendValue", TRUE, "payce", to, amt)

\* The statements of the entry point of frame f, in source order.
Body(f) ==
    LET c == f.caller
        a == f.args
    IN  CASE f.op = "deposit" ->
               << Require(a.amount > 0),
                  Transfer(c, "payce", a.amount),
                  Credit(c, a.amount) >>
          [] f.op = "withdrawUser" ->
               << Require(a.amount > 0),
                  Require(a.amount <= availableBalance(c)),
                  Debit(c, a.amount),
                  Transfer("payce", c, a.amount) >>
          [] f.op = "withdrawMerchant" ->
               << Require(a.amount > 0),
                  Require(merchantBalance[c] >= a.amount),
                  DebitMerchant(c, a.amount),
                  Transfer("payce", c, a.amount) >>
          [] f.op = "openTroveAndBorrow" ->
               LET musdBefore == f.snap[5]["payce"]
                   musdReceived == musd["payce"] - musdBefore
               IN  << Require(a.value > 0),
                      Require(a.musdAmount > 0),
                      Require(a.musdAmount >= minNetDebt),
                      Collaborator("openTrove", a.musdAmount),
                      Require(musdReceived >= a.musdAmount),
                      IF a.depositToPurse
                      THEN Credit(c, musdReceived)
                      ELSE Transfer("payce", c, musdReceived) >>
          [] f.op = "repayLoan" ->
               << Require(a.amount > 0) >>
               \o (IF a.fromPurse
                   THEN << Require(a.amount <= availableBalance(c)),
                           Debit(c, a.amount) >>
                   ELSE << Transfer(c, "payce", a.amount) >>)
               \o << Approve(a.amount),
                     Collaborator("repayMUSD", a.amount) >>
          [] f.op = "closeTrove" ->
               LET totalDebt == f.snap[7].debt
                   musdNeeded == totalDebt - gasCompensation
                   btcReturned == f.snap[7].collateral
               IN  << Require(totalDebt >= gasCompensation),
                      Require(musdNeeded > 0) >>
                   \o (IF a.fromPurse
                       THEN << Require(musdNeeded <= availableBalance(c)),
                               Debit(c, musdNeeded) >>
                       ELSE << Transfer(c, "payce", musdNeeded) >>)
                   \o << Approve(musdNeeded),
                         Collaborator("closeTrove", musdNeeded) >>
                   \o (IF btcReturned > 0
                       THEN << SendValue(c, btcReturned) >>
                       ELSE << >>)

\* The statement frame f is about to execute.
Current(f) ==
    IF f.pc <= Len(Body(f)) THEN Body(f)[f.pc]
    ELSE Stmt("return", TRUE, "none", "none", 0)

\* A transaction enters an entry point.
invoke(op, c, args) ==
    /\ frame.op = "none"
    /\ op = "openTroveAndBorrow" => (btc[c] >= args.value /\ opens < MaxOpens)
    /\ frame' = [op |-> op, caller |-> c, args |-> args, pc |-> 1,
                 seen |-> Unseen, snap |-> Snapshot]
    /\ UNCHANGED <<userBalance, reservedBalance, merchantBalance, redeemed, musd,
                   btc, trove, now, opens, debited, credited, last, pending>>

\* The transaction reverts: the chain is as it was on entry.
Revert ==
    /\ userBalance' = frame.snap[1]
    /\ reservedBalance' = frame.snap[2]
    /\ merchantBalance' = frame.snap[3]
    /\ redeemed' = frame.snap[4]
    /\ musd' = frame.snap[5]
    /\ btc' = frame.snap[6]
    /\ trove' = frame.snap[7]
    /\ opens' = frame.snap[8]
    /\ frame' = Idle

\* The next statement; an external call hands control to its callee, which
\* finds the ledger as it is at that moment.
Advance(external) ==
    frame' = [frame EXCEPT !.pc = @ + 1,
                           !.seen = IF external /\ @ = Unseen THEN ledger ELSE @]

\* One statement of the entry point in progress.
step ==
    /\ frame.op # "none"
    /\ LET s == Current(frame)
           c == frame.caller
       IN  CASE s.k = "return" ->
                  /\ frame' = Idle
                  /\ UNCHANGED <<userBalance, reservedBalance, merchantBalance,
                                 redeemed, musd, btc, trove, opens>>
             [] s.k = "require" ->
                  IF s.cond
                  THEN /\ Advance(FALSE)
                       /\ UNCHANGED <<userBalance, reservedBalance, merchantBalance,
                                      redeemed, musd, btc, trove, opens>>
                  ELSE Revert
             [] s.k = "userBalance+=" ->
                  /\ userBalance' = [userBalance EXCEPT ![s.who] = @ + s.amt]
                  /\ Advance(FALSE)
                  /\ UNCHANGED <<reservedBalance, merchantBalance, redeemed, musd,
                                 btc, trove, opens>>
             [] s.k = "userBalance-=" ->
                  /\ userBalance' = [userBalance EXCEPT ![s.who] = @ - s.amt]
                  /\ Advance(FALSE)
                  /\ UNCHANGED <<reservedBalance, merchantBalance, redeemed, musd,
                                 btc, trove, opens>>
             [] s.k = "merchantBalance-=" ->
                  /\ merchantBalance' = [merchantBalance EXCEPT ![s.who] = @ - s.amt]
                  /\ Advance(FALSE)
                  /\ UNCHANGED <<userBalance, reservedBalance, redeemed, musd,
                                 btc, trove, opens>>
             [] s.k = "transfer" ->
                  IF musd[s.who] < s.amt
                  THEN Revert
                  ELSE /\ musd' = [musd EXCEPT ![s.who] = @ - s.amt,
                                               ![s.to] = @ + s.amt]
                       /\ Advance(TRUE)
                       /\ UNCHANGED <<userBalance, reservedBalance, merchantBalance,
                                      redeemed, btc, trove, opens>>
             [] s.k = "approve" ->
                  /\ Advance(TRUE)
                  /\ UNCHANGED <<userBalance, reservedBalance, merchantBalance,
                                 redeemed, musd, btc, trove, opens>>
             [] s.k = "openTrove" ->
                  IF openTroveErr(frame.args.value, s.amt) # ""
                  THEN Revert
                  ELSE /\ btc' = [btc EXCEPT ![c] = @ - frame.args.value]
                       /\ trove' = [collateral |-> frame.args.value,
                                    debt |-> s.amt + getBorrowingFee(s.amt),
                                    status |-> 1]
                       /\ musd' = [musd EXCEPT !["payce"] =
                                       @ + s.amt + getBorrowingFee(s.amt)]
                       /\ opens' = opens + 1
                       /\ Advance(TRUE)
                       /\ UNCHANGED <<userBalance, reservedBalance, merchantBalance,
                                      redeemed>>
             [] s.k = "repayMUSD" ->
                  IF repayMUSDErr(s.amt, musd["payce"]) # ""
                  THEN Revert
                  ELSE /\ musd' = [musd EXCEPT !["payce"] = @ - s.amt]
                       /\ trove' = [trove EXCEPT !.debt = @ - s.amt]
                       /\ Advance(TRUE)
                       /\ UNCHANGED <<userBalance, reservedBalance, merchantBalance,
                                      redeemed, btc, opens>>
             [] s.k = "closeTrove" ->
                  IF collabCloseErr(musd["payce"]) # ""
                  THEN Revert
                  ELSE /\ musd' = [musd EXCEPT !["payce"] = @ - s.amt]
                       /\ trove' = [collateral |-> 0, debt |-> 0, status |-> 2]
                       /\ Advance(TRUE)
                       /\ UNCHANGED <<userBalance, reservedBalance, merchantBalance,
                                      redeemed, btc, opens>>
             [] s.k = "sendValue" ->
                  /\ btc' = [btc EXCEPT ![s.to] = @ + s.amt]
                  /\ Advance(TRUE)
                  /\ UNCHANGED <<userBalance, reservedBalance, merchantBalance,
                                 redeemed, musd, trove, opens>>
    /\ UNCHANGED <<now, debited, credited, last, pending>>

NextSteps ==
    \/ \E c \in Accounts, amount \in Amounts :
          invoke("deposit", c, [amount |-> amount])
    \/ \E c \in Accounts, amount \in Amounts :
          invoke("withdrawUser", c, [amount |-> amount])
    \/ \E c \in Accounts, amount \in Amounts :
          invoke("withdrawMerchant", c, [amount |-> amount])
    \/ \E c \in Accounts, value \in Collaterals, musdAmount \in BorrowAmounts,
          depositToPurse \in BOOLEAN :
          invoke("openTroveAndBorrow", c,
                 [value |-> value, musdAmount |-> musdAmount,
                  depositToPurse |-> depositToPurse])
    \/ \E c \in Accounts, amount \in Amounts, fromPurse \in BOOLEAN :
          invoke("repayLoan", c, [amount |-> amount, fromPurse |-> fromPurse])
    \/ \E c \in Accounts, fromPurse \in BOOLEAN :
          invoke("closeTrove", c, [fromPurse |-> fromPurse])
    \/ step

SpecSteps == InitFunded /\ [][NextSteps]_vars

\* ------------------------------------------------------------ type check
TypeOK ==
    /\ userBalance \in [Accounts -> Nat]
    /\ reservedBalance \in [Accounts -> Nat]
    /\ merchantBalance \in [Accounts -> Nat]
    /\ redeemed \subseteq Digests
    /\ musd \in [Holders -> Nat]
    /\ btc \in [Accounts -> Nat]
    /\ trove.debt \in Nat /\ trove.collateral \in Nat /\ trove.status \in {0, 1, 2}
    /\ now \in 1..MaxTime
    /\ opens \in 0..MaxReopens

\* ================================================================ claims
Sum(f) == f["alice"] + f["bob"] + f["carol"]

\* C1: for every account the reserved amount never exceeds the purse total,
\* whatever sequence of deposits, withdrawals, reservations, releases,
\* redemptions, purse-funded repayments and closures and purse-credited
\* borrowings has run.
C1_ReservedWithinTotal ==
    \A a \in Accounts : reservedBalance[a] <= userBalance[a]

\* A purse that is reserved to its last unit after a withdrawal, a
\* purse-funded repayment or a redemption was accepted from it.
C1_Witness ==
    /\ last.ok
    /\ last.op \in {"withdrawUser", "repayLoan", "redeemVoucher", "redeemBatch"}
    /\ \E a \in Accounts :
          /\ reservedBalance[a] > 0
          /\ reservedBalance[a] = userBalance[a]
          /\ (last.op = "withdrawUser" => last.caller = a)
          /\ (last.op = "repayLoan" => last.caller = a /\ last.args.fromPurse)
          /\ (last.op \in {"redeemVoucher", "redeemBatch"} => debited[a] > 0)

\* C2: the purse totals and the merchant earnings together never exceed the
\* MUSD the contract holds.
C2_Solvent ==
    Sum(userBalance) + Sum(merchantBalance) <= musd["payce"]

\* The contract holds exactly what it owes, after a loan repayment paid out
\* of a purse while merchants have earnings outstanding.
C2_Witness ==
    /\ last.op = "repayLoan" /\ last.ok /\ last.args.fromPurse
    /\ Sum(merchantBalance) > 0
    /\ Sum(userBalance) + Sum(merchantBalance) = musd["payce"]

PoolVouchers == {e.v : e \in Pool}

\* What the redeemed vouchers with payer (merchant) a add up to.
RECURSIVE AmountOf(_)
AmountOf(V) ==
    IF V = {} THEN 0
    ELSE LET v == CHOOSE x \in V : TRUE IN v.amount + AmountOf(V \ {v})

RedeemedOf(field, a) ==
    {v \in PoolVouchers : hashVoucher(v) \in redeemed /\ v[field] = a}

\* C3: once a voucher's digest is redeemed, a redeemVoucher call with that
\* voucher fails and changes no purse balance, no merchant earnings and no
\* redeemed entry, whatever time has passed and whatever the payer has
\* reserved since.
C3_NoReplay ==
    [][(last'.op = "redeemVoucher"
          /\ hashVoucher(last'.args.voucher) \in redeemed)
       => (~last'.ok /\ UNCHANGED ledger)]_vars

\* The replay of a redeemed voucher by its merchant with the payer's
\* signature, before expiry, against a purse that has reserved enough again.
C3_Witness ==
    /\ last.op = "redeemVoucher" /\ last.err = "voucher already redeemed"
    /\ LET v == last.args.voucher
       IN  /\ last.args.signature = Sign(v.payer, hashVoucher(v))
           /\ v.amount > 0
           /\ reservedBalance[v.payer] >= v.amount

\* What each payer has been debited and each merchant credited by
\* redemptions is the sum over the redeemed vouchers, each counted once.
ExactlyOnce ==
    \A a \in Accounts :
        /\ debited[a] = AmountOf(RedeemedOf("payer", a))
        /\ credited[a] = AmountOf(RedeemedOf("merchant", a))

\* C4: the redeemed set only grows, and what each payer has been debited and
\* each merchant credited by redemptions is the sum over the redeemed
\* vouchers, each counted once, even when a voucher is submitted again after
\* a redemption or twice within one batch.  (ExactlyOnce reads redeemed,
\* debited and credited only: it holds of the empty ledger and needs checking
\* after the steps that change one of them.)
C4_RedeemedOnce ==
    [][/\ redeemed \subseteq redeemed'
       /\ <<redeemed, debited, credited>>' # <<redeemed, debited, credited>>
            => ExactlyOnce']_vars

\* A batch holding the same signed voucher twice went through while the
\* payer still had enough reserved to be debited a second time.
C4_Witness ==
    /\ last.op = "redeemBatch" /\ last.ok
    /\ Len(last.args.vouchers) = 2
    /\ LET v == last.args.vouchers[1]
       IN  /\ last.args.vouchers[2] = v
           /\ last.args.signatures[1] = Sign(v.payer, hashVoucher(v))
           /\ last.args.signatures[2] = Sign(v.payer, hashVoucher(v))
           /\ v.amount > 0
           /\ debited[v.payer] = v.amount
           /\ reservedBalance[v.payer] >= v.amount

\* C5: a redeemVoucher call that succeeds was made by the voucher's merchant,
\* not after expiry, on a digest not yet redeemed, with the payer's signature
\* over that digest, from a purse whose total and reserved both covered the
\* amount; it marks the digest redeemed, takes the amount off the payer's total
\* and reserved, and adds it to the merchant's earnings.
C5_RedeemVoucher ==
    [][(last'.op = "redeemVoucher" /\ last'.ok) =>
        LET v == last'.args.voucher
            sig == last'.args.signature
            digest == hashVoucher(v)
        IN  /\ last'.caller = v.merchant
            /\ now <= v.expiry
            /\ digest \notin redeemed
            /\ sig.signer = v.payer /\ sig.digest = digest
            /\ userBalance[v.payer] >= v.amount
            /\ reservedBalance[v.payer] >= v.amount
            /\ redeemed' = redeemed \cup {digest}
            /\ userBalance' = [userBalance EXCEPT ![v.payer] = @ - v.amount]
            /\ reservedBalance' =
                  [reservedBalance EXCEPT ![v.payer] = @ - v.amount]
            /\ merchantBalance' =
                  [merchantBalance EXCEPT ![v.merchant] = @ + v.amount]]_vars

\* A redeemVoucher call that moved a positive amount.
C5_Witness ==
    /\ last.op = "redeemVoucher" /\ last.ok
    /\ last.args.voucher.amount > 0
    /\ merchantBalance[last.args.voucher.merchant] >= last.args.voucher.amount

\* C6: a redeemVoucher call by anyone but the voucher's merchant fails and
\* changes nothing; a redeemBatch call with an entry naming another merchant
\* than the caller fails as a whole, settling no entry.
C6_OnlyMerchant ==
    [][/\ (last'.op = "redeemVoucher"
            /\ last'.caller # last'.args.voucher.merchant)
          => (~last'.ok /\ UNCHANGED ledger)
       /\ (last'.op = "redeemBatch"
            /\ \E i \in 1..Len(last'.args.vouchers) :
                  last'.args.vouchers[i].merchant # last'.caller)
          => (~last'.ok /\ UNCHANGED ledger)]_vars

\* A batch whose first entry the caller could have settled alone, aborted
\* because its second entry names another merchant.
C6_Witness ==
    /\ last.op = "redeemBatch" /\ last.err = "caller not merchant"
    /\ Len(last.args.vouchers) = 2 /\ Len(last.args.signatures) = 2
    /\ LET v == last.args.vouchers[1]
       IN  /\ v.merchant = last.caller
           /\ last.args.vouchers[2].merchant # last.caller
           /\ redeemVoucherErr(last.caller, v, last.args.signatures[1]) = ""
           /\ v.amount > 0

\* The vouchers of a redemption call that carry payer p's own signature over
\* the digest of exactly the fields submitted.
SignedBy(p, call) ==
    IF call.op = "redeemVoucher"
    THEN {v \in {call.args.voucher} :
            v.payer = p /\ call.args.signature = Sign(p, hashVoucher(v))}
    ELSE {call.args.vouchers[i] :
            i \in {j \in 1..Len(call.args.vouchers) :
                      /\ j <= Len(call.args.signatures)
                      /\ call.args.vouchers[j].payer = p
                      /\ call.args.signatures[j] =
                           Sign(p, hashVoucher(call.args.vouchers[j]))}}

\* C7: a redemption, single or batch, takes from a payer's total and reserved
\* no more than the amounts of the submitted vouchers that carry that payer's
\* signature over the digest of exactly the submitted fields; a signature by
\* another key, or by the payer over a voucher differing in a field, takes
\* nothing.
C7_SignedDebitsOnly ==
    [][last'.op \in {"redeemVoucher", "redeemBatch"} =>
        \A p \in Accounts :
            /\ userBalance[p] - userBalance'[p] <= AmountOf(SignedBy(p, last'))
            /\ reservedBalance[p] - reservedBalance'[p]
                  <= AmountOf(SignedBy(p, last'))]_vars

\* The payer's signature presented by the merchant with a voucher it was not
\* made for, turned down although the payer had the amount reserved.
C7_Witness ==
    /\ last.op = "redeemVoucher" /\ last.err = "invalid signature"
    /\ LET v == last.args.voucher
           sig == last.args.signature
       IN  /\ last.caller = v.merchant
           /\ sig.signer = "alice" /\ sig.digest # hashVoucher(v)
           /\ v.amount > 0
           /\ reservedBalance[v.payer] >= v.amount

\* C8: a redeemVoucher call with voucher.amount = 0 fails, so that no digest
\* is marked redeemed and no balance changes, even when the caller is the
\* named merchant and the signature is the payer's.
C8_ZeroAmountFails ==
    (last.op = "redeemVoucher" /\ last.args.voucher.amount = 0) => ~last.ok

\* C9: a redeemBatch call with an empty vouchers array and an empty
\* signatures array fails rather than completing as a no-op.
C9_EmptyBatchFails ==
    (/\ last.op = "redeemBatch"
     /\ last.args.vouchers = <<>>
     /\ last.args.signatures = <<>>) => ~last.ok

\* C10: a redeemBatch call whose vouchers and signatures arrays differ in
\* length fails on the length comparison and settles no entry, whatever the
\* entries are.
C10_LengthMismatch ==
    [][(last'.op = "redeemBatch"
          /\ Len(last'.args.vouchers) # Len(last'.args.signatures))
       => (/\ ~last'.ok
           /\ last'.err = "length mismatch"
           /\ UNCHANGED ledger)]_vars

\* A batch of one voucher with two signatures, turned down although the
\* caller could have settled the voucher with the first of them.
C10_Witness ==
    /\ last.op = "redeemBatch" /\ last.err = "length mismatch"
    /\ Len(last.args.vouchers) = 1 /\ Len(last.args.signatures) = 2
    /\ last.args.vouchers[1].amount > 0
    /\ redeemVoucherErr(last.caller, last.args.vouchers[1],
                        last.args.signatures[1]) = ""

\* A redemption of voucher v with signature sig by caller c that nothing but
\* the voucher's expiry can stop.
OtherwiseValid(c, v, sig) ==
    /\ c = v.merchant
    /\ v.amount > 0 /\ v.nonce > 0
    /\ hashVoucher(v) \notin redeemed
    /\ sig = Sign(v.payer, hashVoucher(v))
    /\ userBalance[v.payer] >= v.amount
    /\ reservedBalance[v.payer] >= v.amount

\* C11: on the path a merchant uses, the SDK's redeemVoucher (validation, then
\* the contract's check), an otherwise valid voucher with expiry = now is
\* redeemed and one with expiry = now - 1 is rejected.
C11_ExpiryInclusive ==
    [][(/\ last'.op = "sdk.redeemVoucher"
        /\ OtherwiseValid(last'.caller, last'.args.voucher, last'.args.signature))
       => /\ (last'.args.voucher.expiry = now => last'.ok)
          /\ (last'.args.voucher.expiry = now - 1 => ~last'.ok)]_vars

\* The vouchers of a redeemBatch call that are not yet redeemed and carry
\* payer p's signature: the entries the loop does not skip.
Unskipped(p, call) ==
    {v \in SignedBy(p, call) : hashVoucher(v) \notin redeemed}

AllUnskipped(call) == UNION {Unskipped(p, call) : p \in Accounts}

\* A redeemBatch call that no abort rule of the specification stops: arrays
\* of equal length, every entry naming the caller as merchant and unexpired,
\* and every payer holding and having reserved what its unskipped entries
\* add up to.
NothingAborts(call) ==
    /\ Len(call.args.vouchers) = Len(call.args.signatures)
    /\ \A i \in 1..Len(call.args.vouchers) :
          /\ call.args.vouchers[i].merchant = call.caller
          /\ now <= call.args.vouchers[i].expiry
    /\ \A p \in Accounts :
          /\ AmountOf(Unskipped(p, call)) <= userBalance[p]
          /\ AmountOf(Unskipped(p, call)) <= reservedBalance[p]

\* C12: in redeemBatch an entry that is already redeemed, or whose signature
\* recovers to another address than the payer or cannot be recovered at all,
\* is skipped without error: the call succeeds, every other entry settles,
\* and the merchant's earnings grow by the settled amounts only.
C12_BatchSkips ==
    [][(last'.op = "redeemBatch" /\ NothingAborts(last'))
       => /\ last'.ok
          /\ redeemed' = redeemed \cup {hashVoucher(v) : v \in AllUnskipped(last')}
          /\ merchantBalance' =
                [merchantBalance EXCEPT ![last'.caller] =
                    @ + AmountOf(AllUnskipped(last'))]]_vars

\* C13: a redeemBatch call with an expired entry, or in which a payer's
\* unskipped entries add up to more than that payer holds or has reserved (so
\* that one of them reaches the funds check and fails it), aborts as a whole:
\* the entries committed before it are undone, no digest is marked and no
\* balance changes.
C13_BatchAborts ==
    [][(/\ last'.op = "redeemBatch"
        /\ \/ \E i \in 1..Len(last'.args.vouchers) :
                 now > last'.args.vouchers[i].expiry
           \/ \E p \in Accounts :
                 \/ AmountOf(Unskipped(p, last')) > userBalance[p]
                 \/ AmountOf(Unskipped(p, last')) > reservedBalance[p])
       => (~last'.ok /\ UNCHANGED ledger)]_vars

\* A batch of two whose first entry the caller could settle alone, aborted
\* because the payer's reservation does not cover the second as well.
C13_Witness ==
    /\ last.op = "redeemBatch"
    /\ last.err = "not enough reserved funds in batch"
    /\ Len(last.args.vouchers) = 2
    /\ last.args.vouchers[1].amount > 0
    /\ hashVoucher(last.args.vouchers[1]) \notin redeemed
    /\ redeemVoucherErr(last.caller, last.args.vouchers[1],
                        last.args.signatures[1]) = ""

\* The redemption of one entry by caller c on ledger L: an abort (L.err
\* set), a skip (L as it is), or a commit.
EntryStep(L, c, v, sig) ==
    LET digest == hashVoucher(v)
    IN  IF c # v.merchant \/ now > v.expiry THEN [L EXCEPT !.err = "abort"]
        ELSE IF digest \in L.redeemed THEN L
        ELSE IF sig = Malformed THEN [L EXCEPT !.err = "abort"]
        ELSE IF sig # Sign(v.payer, digest) THEN L
        ELSE IF L.userBalance[v.payer] < v.amount
                \/ L.reservedBalance[v.payer] < v.amount
             THEN [L EXCEPT !.err = "abort"]
        ELSE [userBalance |-> [L.userBalance EXCEPT ![v.payer] = @ - v.amount],
              reservedBalance |->
                  [L.reservedBalance EXCEPT ![v.payer] = @ - v.amount],
              merchantBalance |->
                  [L.merchantBalance EXCEPT ![v.merchant] = @ + v.amount],
              redeemed |-> L.redeemed \cup {digest},
              err |-> ""]

\* The entries i, i+1, ... applied one at a time, each to the ledger the one
\* before it left.
RECURSIVE InOrder(_, _, _, _, _)
InOrder(L, c, vouchers, signatures, i) ==
    IF i > Len(vouchers) \/ L.err # "" THEN L
    ELSE InOrder(EntryStep(L, c, vouchers[i], signatures[i]),
                 c, vouchers, signatures, i + 1)

\* C14: redeemBatch does what applying the per-entry step to its entries one
\* at a time in array order does: entry i is checked against the balances and
\* the redeemed set left by the entries before it, the call fails exactly
\* when one of these steps aborts, and otherwise leaves the ledger the last
\* step left.
C14_BatchInOrder ==
    [][(/\ last'.op = "redeemBatch"
        /\ Len(last'.args.vouchers) = Len(last'.args.signatures))
       => LET R == InOrder(Storage, last'.caller, last'.args.vouchers,
                           last'.args.signatures, 1)
          IN  /\ last'.ok <=> R.err = ""
              /\ R.err # "" => UNCHANGED ledger
              /\ R.err = "" =>
                    /\ userBalance' = R.userBalance
                    /\ reservedBalance' = R.reservedBalance
                    /\ merchantBalance' = R.merchantBalance
                    /\ redeemed' = R.redeemed]_vars

\* Two vouchers of one payer, each of which the caller could settle alone,
\* turned down as a batch because the first uses up the reservation the
\* second needs.
C14_Witness ==
    /\ last.op = "redeemBatch"
    /\ last.err = "not enough reserved funds in batch"
    /\ Len(last.args.vouchers) = 2
    /\ last.args.vouchers[1].payer = last.args.vouchers[2].payer
    /\ last.args.vouchers[1] # last.args.vouchers[2]
    /\ \A i \in 1..2 :
          /\ last.args.vouchers[i].amount > 0
          /\ redeemVoucherErr(last.caller, last.args.vouchers[i],
                              last.args.signatures[i]) = ""

\* C15: a call that fails, on a precondition or because the lending
\* collaborator or the token fails after repayLoan or closeTrove has debited
\* the purse, leaves every purse total, reserved amount, merchant earning and
\* the redeemed set as they were before the call.
C15_FailureAtomic ==
    [][(last'.op # "none" /\ ~last'.ok) => UNCHANGED ledger]_vars

\* A purse-funded repayLoan that passed the purse check, so that the purse
\* was debited, and then failed in the collaborator.
C15_Witness ==
    /\ last.op = "repayLoan" /\ ~last.ok /\ last.args.fromPurse
    /\ last.args.amount > 0
    /\ last.args.amount <= availableBalance(last.caller)
    /\ last.err \in {"no active trove", "panic: arithmetic underflow"}

\* The voucher a step settles, when it settles exactly one.
Settled(before, after) ==
    CHOOSE v \in PoolVouchers : hashVoucher(v) \in after \ before

\* C16: redemptions by different merchants against one payer never rely on
\* the same reserved funds.  Whichever of two vouchers is settled first, the
\* other is checked against what the first left: if each could be redeemed
\* but the two amounts together exceed the payer's reservation, the second
\* redemption fails.  Every settlement is covered by the payer's reservation
\* of the moment and comes off it, so that what is settled out of a payer
\* never exceeds what the payer reserved and did not release.
C16_NoSharedReservation ==
    [][/\ Cardinality(redeemed' \ redeemed) = 1 =>
            LET u == Settled(redeemed, redeemed')
            IN  \A e \in Pool :
                  (/\ e.v.payer = u.payer /\ e.v.merchant # u.merchant
                   /\ redeemVoucherErr(e.v.merchant, e.v, e.sig) = ""
                   /\ u.amount + e.v.amount > reservedBalance[u.payer])
                  => redeemVoucherErr(e.v.merchant, e.v, e.sig)' # ""
       /\ \A p \in Accounts :
            /\ debited'[p] >= debited[p]
            /\ debited'[p] - debited[p] <= reservedBalance[p]
            /\ debited'[p] # debited[p] =>
                  reservedBalance'[p] =
                      reservedBalance[p] - (debited'[p] - debited[p])]_vars

\* With one merchant's voucher settled, another merchant's voucher on the
\* same payer is turned down for lack of reserved funds, although the
\* payer's total would cover it.
C16_Witness ==
    /\ last.op = "redeemVoucher" /\ last.err = "not enough reserved funds"
    /\ LET v == last.args.voucher
       IN  /\ v.amount > 0
           /\ userBalance[v.payer] >= v.amount
           /\ \E u \in PoolVouchers :
                 /\ u.payer = v.payer /\ u.merchant # v.merchant
                 /\ u.amount > 0
                 /\ hashVoucher(u) \in redeemed

\* C17: a withdrawUser(amount) call succeeds only with amount > 0 and
\* amount <= total - reserved of the caller; it then takes exactly amount off
\* the caller's total, pays it to the caller and leaves every reserved amount
\* as it was, so that the total left still covers the reservation.
C17_WithdrawUser ==
    [][(last'.op = "withdrawUser" /\ last'.ok) =>
        LET c == last'.caller
            amount == last'.args.amount
        IN  /\ amount > 0
            /\ amount <= userBalance[c] - reservedBalance[c]
            /\ userBalance' = [userBalance EXCEPT ![c] = @ - amount]
            /\ reservedBalance' = reservedBalance
            /\ musd'[c] = musd[c] + amount
            /\ userBalance'[c] >= reservedBalance'[c]]_vars

\* A withdrawal turned down although the caller's total covers it, because
\* part of the total is reserved.
C17_Witness ==
    /\ last.op = "withdrawUser" /\ last.err = "insufficient available funds"
    /\ last.args.amount <= userBalance[last.caller]
    /\ reservedBalance[last.caller] > 0

\* The purse of account c after deposit(1000) and reserveFunds(400) on an
\* empty purse.
AfterDepositAndReserve(c) ==
    userBalance[c] = 1000 /\ reservedBalance[c] = 400

\* C18 as stated: with 1000 deposited into an empty purse and 400 of it
\* reserved, withdrawUser(500) fails and withdrawUser(600) succeeds, leaving
\* total = 400, reserved = 400, available = 0.
C18_AsStated ==
    [][(last'.op = "withdrawUser" /\ AfterDepositAndReserve(last'.caller)) =>
        LET c == last'.caller
        IN  /\ last'.args.amount = 500 => ~last'.ok
            /\ last'.args.amount = 600 =>
                  /\ last'.ok
                  /\ userBalance'[c] = 400 /\ reservedBalance'[c] = 400
                  /\ userBalance'[c] - reservedBalance'[c] = 0]_vars

\* C18: with 1000 deposited into an empty purse and 400 of it reserved,
\* withdrawUser(700) fails and changes nothing, withdrawUser(500) succeeds
\* leaving total = 500, reserved = 400, available = 100, and withdrawUser(600)
\* succeeds leaving total = 400, reserved = 400, available = 0.
C18_Scenario ==
    [][(last'.op = "withdrawUser" /\ AfterDepositAndReserve(last'.caller)) =>
        LET c == last'.caller
        IN  /\ last'.args.amount = 700 => (~last'.ok /\ UNCHANGED chain)
            /\ last'.args.amount = 500 =>
                  /\ last'.ok
                  /\ userBalance'[c] = 500 /\ reservedBalance'[c] = 400
                  /\ userBalance'[c] - reservedBalance'[c] = 100
            /\ last'.args.amount = 600 =>
                  /\ last'.ok
                  /\ userBalance'[c] = 400 /\ reservedBalance'[c] = 400
                  /\ userBalance'[c] - reservedBalance'[c] = 0]_vars

\* alice's purse after she deposited her 1000, reserved 400 and withdrew 600.
C18_Witness ==
    /\ last.op = "withdrawUser" /\ last.ok /\ last.args.amount = 600
    /\ last.caller = "alice"
    /\ userBalance["alice"] = 400 /\ reservedBalance["alice"] = 400
    /\ availableBalance("alice") = 0
    /\ musd["alice"] = 600 /\ musd["payce"] = 400

\* C19: reserveFunds(a) adds a to the caller's reserved amount and changes
\* nothing else; releaseReserved(b) with b <= a by the same caller right after
\* it succeeds and leaves the reserved amount a - b above what it was before
\* the pair (as it was, when b = a), every total, every other account's
\* reserved amount, the merchant earnings and the redeemed set unchanged.
C19_ReserveRelease ==
    [][/\ (last.op = "none" /\ last'.op = "reserveFunds" /\ last'.ok) =>
            /\ reservedBalance' =
                  [reservedBalance EXCEPT ![last'.caller] = @ + last'.args.amount]
            /\ UNCHANGED <<userBalance, merchantBalance, redeemed, musd>>
       /\ (/\ last.op = "reserveFunds" /\ last.ok
           /\ last'.op = "releaseReserved"
           /\ last'.args.amount <= last.args.amount) =>
            LET a == last.args.amount
                b == last'.args.amount
            IN  /\ last'.ok
                /\ reservedBalance' =
                      [reservedBalance EXCEPT ![last.caller] = (@ - a) + (a - b)]
                /\ UNCHANGED <<userBalance, merchantBalance, redeemed, musd>>]_vars

\* A reservation released in full by the next call: nothing is reserved
\* again.
C19_Witness ==
    /\ last.op = "releaseReserved" /\ last.ok
    /\ last.prev.op = "reserveFunds" /\ last.prev.ok
    /\ last.prev.caller = last.caller
    /\ last.prev.args.amount = last.args.amount
    /\ reservedBalance[last.caller] = 0

\* What merchant m has withdrawn so far: what was settled to m and is no
\* longer in m's earnings.
Withdrawn(m) == credited[m] - merchantBalance[m]

\* C20: a withdrawMerchant(amount) call succeeds only with amount > 0 and
\* amount <= the caller's earnings, and then takes exactly amount off those
\* earnings and pays it to the caller; over any sequence of operations what a
\* merchant has withdrawn only grows, by amounts paid out to the merchant,
\* and never exceeds what vouchers have settled to that merchant.
C20_WithdrawMerchant ==
    [][/\ (last'.op = "withdrawMerchant" /\ last'.ok) =>
            LET c == last'.caller
                amount == last'.args.amount
            IN  /\ amount > 0
                /\ amount <= merchantBalance[c]
                /\ merchantBalance' = [merchantBalance EXCEPT ![c] = @ - amount]
                /\ musd'[c] = musd[c] + amount
       /\ \A m \in Accounts :
            /\ Withdrawn(m)' >= Withdrawn(m)
            /\ Withdrawn(m)' <= credited'[m]
            /\ Withdrawn(m)' > Withdrawn(m) =>
                  musd'[m] - musd[m] = Withdrawn(m)' - Withdrawn(m)]_vars

\* A merchant who has withdrawn everything settled to them.
C20_Witness ==
    /\ last.op = "withdrawMerchant" /\ last.ok
    /\ merchantBalance[last.caller] = 0
    /\ credited[last.caller] = last.args.amount
    /\ musd[last.caller] >= last.args.amount

\* C21: in deposit, withdrawUser, withdrawMerchant, openTroveAndBorrow,
\* repayLoan and closeTrove every write to the ledger happens before the first
\* external call: when the entry point returns, the ledger is the one the
\* callee of its first external call found.
Returning == frame.op # "none" /\ Current(frame).k = "return"
C21_WritesBeforeCalls ==
    Returning => frame.seen \in {Unseen, ledger}

\* What the code does keep: the four entry points that pay out or repay write
\* the ledger before their first external call.
C21_PayoutsWriteFirst ==
    (Returning /\ frame.op \notin {"deposit", "openTroveAndBorrow"})
        => frame.seen \in {Unseen, ledger}
C21_PayoutsWitness ==
    /\ Returning
    /\ frame.op = "withdrawUser"
    /\ frame.seen # Unseen
    /\ frame.snap[1] # userBalance

\* The merchant of voucher v presents it with a signature of its payer while
\* it is neither expired nor redeemed.
Presented(call, v) ==
    /\ call.op = "redeemVoucher"
    /\ call.args.voucher = v
    /\ call.caller = v.merchant
    /\ recover(hashVoucher(v), call.args.signature) = v.payer
    /\ now <= v.expiry
    /\ hashVoucher(v) \notin redeemed

\* C22: a payer who released reserved funds and then reserved at least a
\* voucher's amount again has not invalidated the voucher: the merchant's
\* redemption of it, unexpired and unredeemed, with the same signature succeeds.
C22_ReleaseKeepsVoucher ==
    [][\A v \in PoolVouchers :
          ( /\ last' # last
            /\ Presented(last', v)
            /\ last.op = "reserveFunds" /\ last.ok
            /\ last.caller = v.payer
            /\ last.args.amount >= v.amount
            /\ last.prev.op = "releaseReserved" /\ last.prev.ok
            /\ last.prev.caller = v.payer )
          => last'.ok]_vars
C22_Witness ==
    /\ last.op = "redeemVoucher" /\ last.ok
    /\ last.args.voucher = v1
    /\ last.prev.op = "reserveFunds" /\ last.prev.ok
    /\ last.prev.caller = "alice"
    /\ last.prev.prev.op = "releaseReserved" /\ last.prev.prev.ok
    /\ last.prev.prev.caller = "alice"
    /\ reservedBalance["alice"] = 0
    /\ merchantBalance["bob"] = 1000

\* C23: once the payer has reserved at least a voucher's amount, whatever the
\* payer does next, the merchant's redemption of that voucher, unexpired and
\* unredeemed, does not fail for insufficient funds.
InsufficientFunds == {"payer insufficient balance", "not enough reserved funds"}
C23_ReservedStaysRedeemable ==
    [][\A v \in PoolVouchers :
          ( /\ last' # last
            /\ Presented(last', v)
            /\ last.ok /\ last.caller = v.payer
            /\ last.prev.op = "reserveFunds" /\ last.prev.ok
            /\ last.prev.caller = v.payer
            /\ last.prev.args.amount >= v.amount )
          => last'.err \notin InsufficientFunds]_vars

\* C24: a successful openTroveAndBorrow credits the MUSD actually received,
\* which is at least musdAmount: into the caller's purse total (reserved
\* unchanged, the tokens staying in the contract) when depositToPurse, into the
\* caller's wallet (purse unchanged) otherwise; no other purse changes.
C24_OpenCredits ==
    [][(last' # last /\ last'.op = "openTroveAndBorrow" /\ last'.ok) =>
          LET c == last'.caller
              received == (Sum(musd') + musd'["payce"]) - (Sum(musd) + musd["payce"])
          IN  /\ received >= last'.args.musdAmount
              /\ reservedBalance' = reservedBalance
              /\ merchantBalance' = merchantBalance
              /\ IF last'.args.depositToPurse
                 THEN /\ userBalance' = [userBalance EXCEPT ![c] = @ + received]
                      /\ musd' = [musd EXCEPT !["payce"] = @ + received]
                 ELSE /\ userBalance' = userBalance
                      /\ musd' = [musd EXCEPT ![c] = @ + received]]_vars
C24_Witness ==
    /\ last.op = "openTroveAndBorrow" /\ last.ok
    /\ last.args.depositToPurse
    /\ last.args.musdAmount = 2000
    /\ userBalance[last.caller] = 2002
    /\ musd["payce"] = 2002
C24_WitnessWallet ==
    /\ last.op = "openTroveAndBorrow" /\ last.ok
    /\ ~last.args.depositToPurse
    /\ musd[last.caller] = 2002
    /\ userBalance[last.caller] = 0

\* C25: openTroveAndBorrow with no collateral attached, or with musdAmount
\* below the collaborator's minimum debt, fails and leaves every purse, the
\* position and all token and collateral holdings unchanged.
C25_OpenRejected ==
    [][( /\ last' # last
         /\ last'.op = "openTroveAndBorrow"
         /\ \/ last'.args.value = 0
            \/ last'.args.musdAmount < minNetDebt )
       => (~last'.ok /\ UNCHANGED chain /\ UNCHANGED opens)]_vars
C25_Witness ==
    /\ last.op = "openTroveAndBorrow" /\ ~last.ok
    /\ last.args.value = 1 /\ last.args.musdAmount = 1000
    /\ last.err = "below minimum debt"
    /\ trove.status = 1
    /\ userBalance[last.caller] > 0
    /\ musd["payce"] > 0
C25_WitnessNoCollateral ==
    /\ last.op = "openTroveAndBorrow" /\ ~last.ok
    /\ last.args.value = 0 /\ last.args.musdAmount = 2000
    /\ last.err = "must send BTC collateral"

\* C26: repayLoan from the purse succeeds only when amount is within the
\* caller's available balance; it then takes exactly amount off the caller's
\* total, leaves reserved unchanged and lowers the position's debt by amount.
\* Paid from the wallet, it leaves the caller's purse unchanged.
C26_RepayLoan ==
    [][(last' # last /\ last'.op = "repayLoan") =>
          LET c == last'.caller
              amount == last'.args.amount
          IN  /\ reservedBalance' = reservedBalance
              /\ (last'.args.fromPurse /\ last'.ok) =>
                    /\ amount <= availableBalance(c)
                    /\ userBalance' = [userBalance EXCEPT ![c] = @ - amount]
                    /\ trove'.debt = trove.debt - amount
              /\ ~last'.args.fromPurse => userBalance' = userBalance]_vars
C26_Witness ==
    /\ last.op = "repayLoan" /\ last.ok
    /\ last.args.fromPurse
    /\ last.args.amount = 1000
    /\ userBalance[last.caller] = 1002
    /\ reservedBalance[last.caller] = 1000
    /\ trove.debt = 1002
C26_WitnessWallet ==
    /\ last.op = "repayLoan" /\ last.ok
    /\ ~last.args.fromPurse
    /\ userBalance[last.caller] > 0
    /\ trove.debt < 2002

\* C27: closeTrove from the purse, called when the caller's available balance
\* is below totalDebt - gasCompensation, fails: the position stays active with
\* the same debt and collateral, no collateral reaches the caller and every
\* purse is unchanged.
C27_CloseUnderfunded ==
    [][( /\ last' # last
         /\ last'.op = "closeTrove"
         /\ last'.args.fromPurse
         /\ availableBalance(last'.caller) < trove.debt - gasCompensation )
       => ( /\ ~last'.ok
            /\ trove'.status = 1
            /\ trove' = trove
            /\ btc' = btc
            /\ UNCHANGED <<userBalance, reservedBalance, merchantBalance, musd>> )]_vars
C27_Witness ==
    /\ last.op = "closeTrove" /\ ~last.ok
    /\ last.args.fromPurse
    /\ last.err = "insufficient purse balance"
    /\ trove.status = 1 /\ trove.debt = 2002
    /\ userBalance[last.caller] = 2002
    /\ reservedBalance[last.caller] = 1000

\* The close from the purse of caller c goes through in this step, for
\* exactly totalDebt - gasCompensation.
ClosedFromPurse(c) ==
    /\ last'.ok
    /\ userBalance' = [userBalance EXCEPT ![c] = @ - (trove.debt - gasCompensation)]
    /\ trove'.status # 1 /\ trove'.debt = 0 /\ trove'.collateral = 0
    /\ btc' = [btc EXCEPT ![c] = @ + trove.collateral]

\* C28: closing from the purse takes exactly totalDebt - gasCompensation of
\* available balance: whenever a position is active and the caller's available
\* balance is at least that amount, the close (sent to the contract or asked
\* of the SDK) goes through, debits the caller's total by that amount, leaves
\* the position inactive with no debt and no collateral and forwards the
\* collateral to the caller.
C28_CloseFromPurse ==
    [][( /\ last' # last
         /\ last'.op \in {"closeTrove", "sdk.closeTrove"}
         /\ last'.args.fromPurse
         /\ trove.status = 1
         /\ availableBalance(last'.caller) >= trove.debt - gasCompensation )
       => ClosedFromPurse(last'.caller)]_vars

\* What the contract does keep: called directly on a position whose debt
\* exceeds the gas compensation, it closes for exactly that amount.
C28_ContractClose ==
    [][( /\ last' # last
         /\ last'.op = "closeTrove"
         /\ last'.args.fromPurse
         /\ trove.status = 1
         /\ trove.debt > gasCompensation
         /\ availableBalance(last'.caller) >= trove.debt - gasCompensation )
       => ClosedFromPurse(last'.caller)]_vars
C28_ContractWitness ==
    /\ last.op = "closeTrove" /\ last.ok
    /\ last.args.fromPurse
    /\ trove.status = 2
    /\ userBalance[last.caller] = 198
    /\ btc[last.caller] = 1
C28_SdkRefuses ==
    /\ last.op = "sdk.closeTrove" /\ ~last.ok
    /\ last.err = "Insufficient purse balance to close trove"
    /\ trove.status = 1
    /\ availableBalance(last.caller) >= trove.debt - gasCompensation
    /\ trove.debt > gasCompensation

\* C29: an open request that completes while a position is active fails with
\* the trove-already-active error and leaves the position's debt and
\* collateral unchanged, however the callers' is-active checks and open
\* transactions interleave.
C29_OpenWhileActive ==
    [][( /\ last' # last
         /\ last'.op \in {"openTroveAndBorrow", "sdk.openTroveAndBorrow"}
         /\ trove.status = 1 )
       => ( /\ ~last'.ok
            /\ last'.err = "Trove is already active"
            /\ trove' = trove )]_vars

\* What the SDK does keep: a request whose check runs while a position is
\* active is refused and changes nothing.
C29_CheckedWhileActive ==
    [][( /\ last' # last
         /\ last'.op = "sdk.openTroveAndBorrow"
         /\ trove.status = 1 )
       => ( /\ ~last'.ok
            /\ last'.err = "Trove is already active"
            /\ trove' = trove )]_vars
C29_CheckedWitness ==
    /\ last.op = "sdk.openTroveAndBorrow" /\ ~last.ok
    /\ last.err = "Trove is already active"
    /\ trove.status = 1 /\ trove.debt = 2002
C29_Overwritten ==
    /\ last.op = "openTroveAndBorrow" /\ last.ok
    /\ opens = 2
    /\ trove.debt = 2002
    /\ musd["payce"] + Sum(musd) > 2002

\* C30: for every ratio icr, getCollateralizationRatioPercent returns
\* floor(icr * 100 / 1e18) and isAtLiquidationRisk returns that percentage
\* with atRisk = (percentage < 110), so atRisk holds exactly when icr is
\* below 1.10e18, in particular when the ratio reads 0.
Threshold == (11 * ONE) \div 10
AsSpecified(call) ==
    LET icr == call.args.icr
        floor == (icr * 100) \div ONE
    IN  /\ call.ok
        /\ IF call.op = "isAtLiquidationRisk"
           THEN /\ call.ret.currentICR = floor
                /\ call.ret.atRisk = (floor < 110)
                /\ call.ret.atRisk = (icr < Threshold)
           ELSE call.ret = floor
C30_AsStated ==
    last.op \in {"getCollateralizationRatioPercent", "isAtLiquidationRisk"}
        => AsSpecified(last)

\* C30, for the ratios whose hundredfold fits the word; on the others both
\* views revert.
C30_Risk ==
    last.op \in {"getCollateralizationRatioPercent", "isAtLiquidationRisk"}
        => IF last.args.icr <= MaxUint \div 100
           THEN AsSpecified(last)
           ELSE ~last.ok
C30_Witness ==
    /\ last.op = "isAtLiquidationRisk" /\ last.ok
    /\ last.args.icr = Threshold - 1
    /\ last.ret.atRisk /\ last.ret.currentICR = 109
C30_WitnessNoPosition ==
    /\ last.op = "isAtLiquidationRisk" /\ last.ok
    /\ trove.status = 0
    /\ last.args.icr = 0
    /\ last.ret.atRisk /\ last.ret.currentICR = 0

\* C31: deposit, withdrawUser, reserveFunds and releaseReserved change only
\* the caller's own purse entry: every other account's total and reserved,
\* all merchant earnings, the redeemed set and the position are unchanged;
\* deposit changes only total, by +amount (withdrawUser by -amount), and
\* reserveFunds and releaseReserved change only reserved.
PurseOps == {"deposit", "withdrawUser", "reserveFunds", "releaseReserved"}
C31_OwnPurseOnly ==
    [][(last' # last /\ last'.op \in PurseOps) =>
          LET c == last'.caller
              amount == last'.args.amount
              moved == IF ~last'.ok THEN 0
                       ELSE IF last'.op = "deposit" THEN amount
                       ELSE IF last'.op = "withdrawUser" THEN 0 - amount
                       ELSE 0
          IN  /\ \A a \in Accounts \ {c} :
                    /\ userBalance'[a] = userBalance[a]
                    /\ reservedBalance'[a] = reservedBalance[a]
              /\ UNCHANGED <<merchantBalance, redeemed, trove>>
              /\ userBalance'[c] = userBalance[c] + moved
              /\ last'.op \in {"deposit", "withdrawUser"}
                    => reservedBalance' = reservedBalance]_vars
C31_Witness ==
    /\ last.op = "deposit" /\ last.ok
    /\ last.args.amount = 1000
    /\ userBalance[last.caller] = 1000
    /\ \E a \in Accounts \ {last.caller} : userBalance[a] > 0 /\ reservedBalance[a] > 0
    /\ redeemed # {}

\* ---------------------------------------------- requests without a position
TroveOps == {"repayLoan", "closeTrove", "refinanceLoan", "addCollateral", "withdrawCollateral"}

SdkTroveOps ==
    {"sdk.repayLoan", "sdk.closeTrove", "sdk.refinanceLoan", "sdk.addCollateral",
     "sdk.withdrawCollateral"}

\* The SDK's TroveNotActiveError and the collaborator's revert reason.
TroveNotActive == {"Trove is not active", "no active trove"}

\* Refusals of the arguments and of the funding, which the contract checks
\* before it reaches the collaborator.
RefusedEarlier ==
    {"amount must be >0", "must send BTC", "insufficient purse balance",
     "ERC20: insufficient balance"}

\* A trove request, asked of the SDK or mined by the contract, that finds no
\* active position.
FoundInactive ==
    /\ last' # last
    /\ last'.op \in TroveOps \cup SdkTroveOps
    /\ trove.status # 1

\* C32: repayLoan, closeTrove, refinanceLoan, addCollateral and
\* withdrawCollateral requested while no position is active fail with a
\* trove-not-active error (unless the arguments or the funding are refused
\* first) and change nothing.
C32_InactiveRefused ==
    [][FoundInactive =>
          /\ ~last'.ok
          /\ last'.err \in TroveNotActive \cup RefusedEarlier
          /\ UNCHANGED <<userBalance, reservedBalance, merchantBalance, redeemed,
                         musd, btc, trove>>]_vars

\* What does hold: every such request fails and changes nothing, so no purse is
\* debited; the SDK refuses with its trove-not-active error, and every contract
\* call but closeTrove reverts with the collaborator's or an earlier refusal.
C32_InactiveChangesNothing ==
    [][FoundInactive =>
          /\ ~last'.ok
          /\ UNCHANGED <<userBalance, reservedBalance, merchantBalance, redeemed,
                         musd, btc, trove>>
          /\ last'.op \in SdkTroveOps => last'.err = "Trove is not active"
          /\ last'.op \in TroveOps \ {"closeTrove"} =>
                last'.err \in TroveNotActive \cup RefusedEarlier]_vars

\* A purse-funded repay that the purse covers, mined after the position was
\* closed: reverted by the collaborator, the purse as it was.
C32_RepayWitness ==
    /\ last # NoCall /\ last.op = "repayLoan" /\ last.args.fromPurse
    /\ last.err = "no active trove"
    /\ availableBalance(last.caller) >= last.args.amount
    /\ opens = MaxReopens

\* A purse-funded close mined without a position: the subtraction of the gas
\* compensation from a debt of zero fails.
C32_CloseWitness ==
    /\ last # NoCall /\ last.op = "closeTrove" /\ last.args.fromPurse
    /\ trove.status # 1
    /\ last.err = "panic: arithmetic underflow"

\* ------------------------------------------------- batches through the SDK
\* The batch passes the SDK's checks of its shape and of each voucher.
WellFormed(args) ==
    /\ Len(args.vouchers) = Len(args.signatures)
    /\ Len(args.vouchers) > 0
    /\ \A i \in 1..Len(args.vouchers) : validateVoucher(args.vouchers[i]) = ""

\* The reserved balance of each payer in the batch covers the sum of that
\* payer's voucher amounts.
Covered(vouchers) ==
    \A i \in 1..Len(vouchers) :
       reservedBalance[vouchers[i].payer] >=
          totalAmount(SelectSeq(vouchers, LAMBDA v : v.payer = vouchers[i].payer))

\* C33: the SDK's redeemBatch submits the batch only when the reserved
\* balance of each payer covers the sum of that payer's voucher amounts,
\* otherwise throws InsufficientReservedError without submitting, and never
\* rejects a batch that the contract would settle.
C33_SubmitsCovered ==
    [][( /\ last' # last
         /\ last'.op \in {"sdk.redeemBatch", "redeemBatch"}
         /\ WellFormed(last'.args) )
       => LET submitted == last'.op = "redeemBatch"
              settles == redeemBatchRun(last'.caller, last'.args.vouchers,
                                        last'.args.signatures).err = ""
          IN  /\ submitted => Covered(last'.args.vouchers)
              /\ ~submitted =>
                    /\ last'.err = "Insufficient reserved funds"
                    /\ UNCHANGED <<userBalance, reservedBalance, merchantBalance, redeemed>>
              /\ settles => submitted]_vars

\* A batch submitted although one of its payers has nothing reserved; the
\* contract reverts it.
C33_SubmittedUncovered ==
    /\ last # NoCall /\ last.op = "redeemBatch" /\ ~last.ok
    /\ WellFormed(last.args)
    /\ ~Covered(last.args.vouchers)

\* A batch thrown back although the contract settles it: the sum counts an
\* entry the contract skips.
C33_RejectedSettled ==
    /\ last # NoCall /\ last.op = "sdk.redeemBatch"
    /\ last.err = "Insufficient reserved funds"
    /\ redeemBatchRun(last.caller, last.args.vouchers, last.args.signatures).err = ""
    /\ Covered(<<last.args.vouchers[1]>>)

\* ------------------------------------------------ asking about a voucher
\* C34: the SDK's isVoucherRedeemed(voucher) agrees with the contract's
\* redeemed set: false for a voucher never redeemed, true in every state after
\* the voucher was redeemed.
C34_AgreesWithRedeemed ==
    \A v \in PoolVouchers : isVoucherRedeemed(v) <=> hashVoucher(v) \in redeemed

\* What the SDK answers instead: false for every voucher in every state.
C34_NeverTrue == \A v \in PoolVouchers : ~isVoucherRedeemed(v)

\* A redeemed voucher the SDK reports as not redeemed.
C34_Missed ==
    \E v \in PoolVouchers : hashVoucher(v) \in redeemed /\ ~isVoucherRedeemed(v)

\* ------------------------------------------------- what an SDK write returns
SdkWrites == {"sdk.deposit", "sdk.withdrawUser", "sdk.redeemVoucher"}

\* C35: an SDK write whose transaction submission throws or whose receipt is
\* reverted returns a TransactionResult with success = false and an error
\* message and does not throw; it returns success = true only when the
\* receipt status is success; a call its own validation refuses (zero amount,
\* insufficient balance, invalid voucher) throws before any transaction is
\* submitted, and nothing changes.
C35_WriteResult ==
    [][(last' # last /\ last'.op \in SdkWrites) =>
          /\ last'.sent \in {"thrown", "reverted"} =>
                /\ last'.ok
                /\ ~last'.ret.success
                /\ last'.ret.error # ""
          /\ (last'.ok /\ last'.ret.success) => last'.sent = "success"
          /\ last'.sent = "success" => (last'.ok /\ last'.ret.success)
          /\ ~last'.ok =>
                /\ last'.sent = "none"
                /\ last'.err # ""
                /\ UNCHANGED <<userBalance, reservedBalance, merchantBalance,
                               redeemed, musd>>
          /\ ( \/ (last'.op # "sdk.redeemVoucher" /\ last'.args.amount <= 0)
               \/ (last'.op = "sdk.withdrawUser"
                   /\ availableBalance(last'.caller) < last'.args.amount)
               \/ (last'.op = "sdk.redeemVoucher"
                   /\ validateVoucher(last'.args.voucher) # "") )
             => ~last'.ok]_vars

\* A deposit the wallet cannot fund, mined and reverted.
C35_Witness ==
    /\ last # NoCall /\ last.op = "sdk.deposit"
    /\ last.sent = "reverted"
    /\ last.ret = [hash |-> "tx", success |-> FALSE, error |-> "Transaction reverted"]

\* A withdrawal beyond the available balance, thrown back before sending.
C35_WitnessThrown ==
    /\ last # NoCall /\ last.op = "sdk.withdrawUser"
    /\ ~last.ok /\ last.err = "Insufficient balance"
    /\ userBalance[last.caller] > 0

\* A redemption whose transaction succeeded.
C35_WitnessSuccess ==
    /\ last # NoCall /\ last.op = "sdk.redeemVoucher"
    /\ last.sent = "success" /\ last.ret.success
    /\ hashVoucher(last.args.voucher) \in redeemed

\* ------------------------------------------------ value inside the ledger
\* C36: every redeemVoucher or redeemBatch call, successful or not, leaves
\* (sum of all userBalance) + (sum of all merchantBalance) unchanged,
\* including when the payer and the merchant are the same address.
C36_RedemptionConserves ==
    [][(last' # last /\ last'.op \in {"redeemVoucher", "redeemBatch"}) =>
          Sum(userBalance') + Sum(merchantBalance')
             = Sum(userBalance) + Sum(merchantBalance)]_vars

\* A batch that settled a voucher alice pays herself with: her purse debited,
\* her earnings credited.
C36_Witness ==
    /\ last # NoCall /\ last.op = "redeemBatch" /\ last.ok
    /\ last.caller = "alice"
    /\ hashVoucher(v6) \in redeemed
    /\ merchantBalance["alice"] = v6.amount

\* The same through redeemVoucher.
C36_WitnessVoucher ==
    /\ last # NoCall /\ last.op = "redeemVoucher" /\ last.ok
    /\ last.args.voucher = v6
    /\ merchantBalance["alice"] = v6.amount

\* ------------------------------------------------- who lowers a reservation
\* The vouchers of payer a that the observed call settled.
SettledOf(a) ==
    {v \in PoolVouchers : /\ v.payer = a
                          /\ hashVoucher(v) \in redeemed'
                          /\ hashVoucher(v) \notin redeemed}

\* The observed call presented voucher v with a signature of its payer.
SignedByPayer(call, v) ==
    IF call.op \in {"redeemVoucher", "sdk.redeemVoucher"}
    THEN call.args.voucher = v
         /\ recover(hashVoucher(v), call.args.signature) = v.payer
    ELSE \E i \in 1..Len(call.args.vouchers) :
            /\ i <= Len(call.args.signatures)
            /\ call.args.vouchers[i] = v
            /\ recover(hashVoucher(v), call.args.signatures[i]) = v.payer

\* C37: a payer's reserved balance decreases only through releaseReserved
\* called by that payer or through settlement of a voucher signed by that
\* payer (by the sum of the amounts settled); no call by another account and
\* no withdrawUser, repayLoan or closeTrove lowers it or takes the purse below
\* it.
C37_ReservedLowered ==
    [][last' # last =>
          /\ \A a \in Accounts :
                reservedBalance'[a] < reservedBalance[a] =>
                   \/ last'.op = "releaseReserved" /\ last'.caller = a
                   \/ /\ last'.op \in {"redeemVoucher", "sdk.redeemVoucher", "redeemBatch"}
                      /\ SettledOf(a) # {}
                      /\ \A v \in SettledOf(a) : SignedByPayer(last', v)
                      /\ reservedBalance[a] - reservedBalance'[a] = AmountOf(SettledOf(a))
          /\ last'.op \in {"withdrawUser", "repayLoan", "closeTrove"} =>
                /\ reservedBalance' = reservedBalance
                /\ reservedBalance'[last'.caller] <= userBalance'[last'.caller]]_vars

\* A purse-funded repayment accepted from a purse that holds a reservation.
C37_Witness ==
    /\ last # NoCall /\ last.op = "repayLoan" /\ last.ok /\ last.args.fromPurse
    /\ reservedBalance[last.caller] > 0

\* A reservation lowered by the settlement of the payer's voucher.
C37_WitnessSettled ==
    /\ last # NoCall /\ last.op = "redeemBatch" /\ last.ok
    /\ hashVoucher(v1) \in redeemed
    /\ reservedBalance["alice"] > 0

\* ------------------------------------------------- the order of a batch
\* The rearrangements of n entries.
Orders(n) == {p \in [1..n -> 1..n] : \A i, j \in 1..n : p[i] = p[j] => i = j}

Rearranged(q, p) == [i \in 1..Len(q) |-> q[p[i]]]

\* The observed redeemBatch call ended as the same entries in order p would
\* have, started from the same ledger.
SameOutcome(p) ==
    LET R == redeemBatchRun(last'.caller, Rearranged(last'.args.vouchers, p),
                            Rearranged(last'.args.signatures, p))
    IN  /\ (R.err = "") <=> last'.ok
        /\ last'.ok => /\ R.userBalance = userBalance'
                       /\ R.reservedBalance = reservedBalance'
                       /\ R.merchantBalance = merchantBalance'
                       /\ R.redeemed = redeemed'

\* A redeemBatch call with as many signatures as vouchers.
BatchObserved ==
    /\ last' # last
    /\ last'.op = "redeemBatch"
    /\ Len(last'.args.vouchers) = Len(last'.args.signatures)

\* C38: the outcome of redeemBatch does not depend on the order of its
\* entries: for every batch and every permutation of it, started from the same
\* ledger state, either both calls abort or both succeed with the same final
\* balances, merchant earnings and redeemed set.
C38_OrderIndependent ==
    [][BatchObserved => \A p \in Orders(Len(last'.args.vouchers)) : SameOutcome(p)]_vars

\* What does hold: the order is immaterial for a batch in which every
\* signature can be recovered.
C38_RecoverableOrderIndependent ==
    [][( /\ BatchObserved
         /\ \A i \in 1..Len(last'.args.vouchers) :
               recover(hashVoucher(last'.args.vouchers[i]), last'.args.signatures[i])
                  # "revert" )
       => \A p \in Orders(Len(last'.args.vouchers)) : SameOutcome(p)]_vars

\* A batch that settles its voucher and skips the copy with the unreadable
\* signature; the other way round it aborts.
C38_Settled ==
    /\ last # NoCall /\ last.op = "redeemBatch" /\ last.ok
    /\ Len(last.args.vouchers) = 2
    /\ last.args.vouchers[1] = last.args.vouchers[2]
    /\ last.args.signatures[2] = Malformed
    /\ hashVoucher(last.args.vouchers[1]) \in redeemed

\* ------------------------------------------------- whose collateral it is
\* C39: over any sequence of openTroveAndBorrow, addCollateral,
\* withdrawCollateral and closeTrove calls by several accounts, the native
\* collateral an account receives from withdrawCollateral and closeTrove never
\* exceeds the collateral that account supplied through openTroveAndBorrow and
\* addCollateral: no account ever holds more than the one coin it started with.
C39_NoCollateralGained == \A c \in Accounts : btc[c] <= 1

\* The position holds the collateral of one account while another one has
\* taken a coin out of it.
C39_TakenByAnother ==
    /\ last # NoCall /\ last.op = "withdrawCollateral" /\ last.ok
    /\ btc[last.caller] = 2
    /\ \E a \in Accounts \ {last.caller} : btc[a] = 0

====
